---- MODULE Spec2Model ----
(***************************************************************************)
(* Hydra sub-kernel binding registry (src/src/hydra-kernel/binding.ts)     *)
(* and the notebook's binding assignment controller                        *)
(* (src/src/hydra-kernel/tokens.ts, HydraNotebookExtension.createNew).     *)
(*                                                                         *)
(* Objects with reference identity are numbered in creation order:         *)
(* a tracker (and the ObservableList it owns) is its index in `trackers`,  *)
(* a comm is its index in `comms`; the comm's index is also its commId.    *)
(* Sequences are 1-based here and 0-based in the source: FindIndex keeps   *)
(* the source's 0-based result (-1 for "not found").                       *)
(***************************************************************************)
EXTENDS Integers, Sequences, FiniteSets, TLC

\* ---------------------------------------------------------------- domains
Kernels == {"k1", "k2"}
\* a kernel connection created with handleComms = false: kernel.createComm throws
NoCommKernels == {"k0"}
AllKernels == Kernels \cup NoCommKernels
HandleComms(kernel) == kernel \in Kernels
NoKernel == "null"
\* kernel.name: the status panel shows the bindings of 'hydra' kernels only
KernelName(kernel) == IF kernel \in NoCommKernels THEN "python3" ELSE "hydra"
\* the open notebook panels; NoNotebook: notebookTracker.currentWidget is null
Notebooks == {"n1", "n2"}
NoNotebook == "none"
Names == {"a", "b"}
NoName == "undefined"
\* mimeType "" stands for an absent (falsy) mimeType
MimeTypes == {"", "text/x-r"}
BindingModels == [name : Names, mimeType : MimeTypes]
NoBinding == [name |-> NoName, mimeType |-> ""]

NoTracker == 0
NoComm == 0

MaxTrackers == 2
MaxComms == 2
MaxReplyLen == 2
MaxCells == 2
MaxDisplayLen == 11
MaxHandlers == 3

ConnectionStatuses == {"connecting", "connected", "disconnected"}
COMM_CHANNEL == "hydra"
NumCellClasses == 10

RECURSIVE SeqsUpTo(_, _)
SeqsUpTo(S, n) ==
  IF n = 0 THEN {<<>>}
  ELSE LET shorter == SeqsUpTo(S, n - 1)
       IN shorter \cup {Append(s, x) : s \in {q \in shorter : Len(q) = n - 1}, x \in S}

\* msg.content.data of an inbound comm message; malformed: the field the event's
\* handler reads (data.binding, data.bindings) is missing, NoBinding standing for the
\* undefined it reads instead
UpdateData(b) ==
  [event |-> "binding_update", binding |-> b, bindings |-> <<>>, malformed |-> FALSE]
RemoveData(b) ==
  [event |-> "binding_remove", binding |-> b, bindings |-> <<>>, malformed |-> FALSE]
ReplyData(bs) ==
  [event |-> "binding_list_reply", binding |-> NoBinding, bindings |-> bs,
   malformed |-> FALSE]
MalformedData(event) ==
  [event |-> event, binding |-> NoBinding, bindings |-> <<>>, malformed |-> TRUE]
OtherData ==
  [event |-> "binding_noop", binding |-> NoBinding, bindings |-> <<>>, malformed |-> FALSE]
\* a data object without event field
NoEvent == "undefined"
EmptyData ==
  [event |-> NoEvent, binding |-> NoBinding, bindings |-> <<>>, malformed |-> FALSE]
NoCell == [type |-> "", meta |-> NoName]
\* a message without data
NoData == [event |-> "", binding |-> NoBinding, bindings |-> <<>>, malformed |-> FALSE]
\* every payload of the three events over these models
Updates(models) == {UpdateData(b) : b \in models}
Removes(models) == {RemoveData(b) : b \in models}
Replies(models, maxLen) == {ReplyData(bs) : bs \in SeqsUpTo(models, maxLen)}
\* replies list bindings without attributes; updates and removes carry every model
PlainModels == {b \in BindingModels : b.mimeType = ""}
InboundData ==
  Updates(BindingModels) \cup Removes(BindingModels)
    \cup Replies(PlainModels, MaxReplyLen) \cup {OtherData}
\* the payloads about one binding, for the specifications about the objects' lifecycle
OneModel == [name |-> "a", mimeType |-> ""]
LifecycleData ==
  {UpdateData(OneModel), RemoveData(OneModel), ReplyData(<<OneModel>>), ReplyData(<<>>),
   OtherData}
\* well-formed payloads, the three events without their payload field, and messages
\* of no known event
KnownEvents == {"binding_list_reply", "binding_update", "binding_remove"}
MalformedInbound ==
  Updates(PlainModels) \cup Removes(PlainModels)
    \cup {ReplyData(<<OneModel>>), ReplyData(<<>>)}
    \cup {MalformedData(e) : e \in KnownEvents}
    \cup {OtherData, EmptyData, NoData}

VARIABLES
  bindingsMap,   \* BindingRegistry._bindings: kernel -> tracker (NoTracker: no entry)
  trackers,      \* every BindingTracker ever created: bindings list, comm, list disposed
  comms,         \* every IComm ever created by createComm
  connStatus,    \* kernel.connectionStatus
  statusSlots,   \* kernel -> trackers whose onKernelConnectionStatusChanged is connected
  disposedSlots, \* kernel -> trackers whose onKernelDisposed is connected
  kernelDisposed,\* kernel.isDisposed
  cells,         \* panel.model.cells with each cell's metadata entry and widget display
  ctlBindings,   \* createNew's `bindings` variable (tracker of the list, or NoTracker)
  listSlots,     \* trackers whose list's `changed` has onBindingsChanged connected
  switcherList,  \* CellBindingSwitcher._bindingList
  display,       \* one cell widget under Private.updateCellDisplay, with the list it is given
  metadata,      \* cell model -> its metadata (IObservableJSON): key -> value
  metaSlots,     \* cell model -> onChange closures connected to cell.metadata.changed
  handlerMap,    \* CellMetadata._onBindingNameChangeHandlers: cell model -> closures
  adapterDisposed, \* CellMetadata.isDisposed
  ctlDisposed,   \* the disposable createNew returned has been disposed
  sessionKernel, \* notebook -> panel.sessionContext.session.kernel (NoKernel: none)
  panelNotebook, \* BindingStatusPanel._currentNotebook
  panelKernelSlots, \* notebooks whose kernelChanged has the panel's _onKernelChanged connected
  panelContent,  \* tracker of the list the panel's BindingListWidget shows (NoTracker: placeholder)
  panelListSlots, \* trackers whose list's `changed` has a BindingStatusList connected
  remote,        \* the bindings the kernel side of the 'hydra' comm target holds
  wire,          \* comm messages on their way from the kernel, oldest first
  requests,      \* comms whose comm_open and binding_list_request are on their way to the kernel
  remoteComms,   \* the comms open at the kernel side
  settled,       \* the kernel side and the connection have stopped changing
  last           \* the call handled last: operation, arguments and outcome

vars == <<bindingsMap, trackers, comms, connStatus, statusSlots, disposedSlots,
          kernelDisposed, cells, ctlBindings, listSlots, switcherList,
          display, metadata, metaSlots, handlerMap, adapterDisposed, ctlDisposed,
          sessionKernel, panelNotebook, panelKernelSlots, panelContent, panelListSlots,
          remote, wire, requests, remoteComms, settled, last>>
registryVars == <<bindingsMap, trackers, comms, connStatus, statusSlots, disposedSlots,
                  kernelDisposed>>
notebookVars == <<cells, ctlBindings, listSlots, switcherList>>
adapterVars == <<metadata, metaSlots, handlerMap, adapterDisposed>>
remoteVars == <<remote, wire, requests, remoteComms, settled>>
focusVars == <<panelNotebook, panelKernelSlots, panelContent>>
panelVars == <<sessionKernel, focusVars, panelListSlots>>
\* what the registry's and the controller's handlers leave alone, but for the
\* subscriptions that the disposal of a collection drops
sideVars == <<display, adapterVars, ctlDisposed, panelVars, remoteVars>>

\* op: the operation; kernel, arg (a comm id or a cell index), text (a status, a
\* binding name or a cell's source text) and data (an inbound payload): its arguments;
\* res: what it returned; threw: an error came out of the method called, or out of
\* the handler the event's signal ran (the signal's emit then stops it; an error of a
\* listener run further inside is stopped before it reaches them); emitted: how often the
\* collection's `changed` signal fired in it; model, key: the cell model and metadata
\* key of a metadata operation; fired: the registered callbacks it ran, in order
Call(op, k, arg, text, data, res) ==
  [op |-> op, kernel |-> k, arg |-> arg, text |-> text, data |-> data, res |-> res,
   cell |-> NoCell, threw |-> FALSE, emitted |-> 0, model |-> "", key |-> "", fired |-> <<>>]

\* ------------------------------------------- @lumino/algorithm toArray, findIndex
\* toArray(list.iter()): the entries the iterator yields. The functions of
\* @lumino/algorithm 1.x loop `while ((value = it.next()) !== undefined)`, so an
\* undefined entry ends the iteration: it and the entries behind it are not visited
ToArray(list) ==
  LET holes == {i \in 1..Len(list) : list[i] = NoBinding}
  IN IF holes = {} THEN list
     ELSE SubSeq(list, 1, (CHOOSE i \in holes : \A j \in holes : i <= j) - 1)

\* findIndex(list.iter(), ({ name }) => name === ...): 0-based index of the first
\* visited entry named `name`, -1 when there is none
FindIndex(list, name) ==
  LET visited == ToArray(list)
      hits == {i \in 1..Len(visited) : visited[i].name = name}
  IN IF hits = {} THEN -1 ELSE (CHOOSE i \in hits : \A j \in hits : i <= j) - 1

RemoveAt(list, idx) ==
  [i \in 1..(Len(list) - 1) |-> IF i <= idx THEN list[i] ELSE list[i + 1]]

\* ------------------------------------------- @jupyterlab/observables ObservableList
ListClear(list) == <<>>
ListPushAll(list, values) == list \o values
ListPush(list, value) == Append(list, value)
ListSet(list, idx, value) == [list EXCEPT ![idx + 1] = value]
ListRemove(list, idx) == RemoveAt(list, idx)

\* ------------------------------------------------------------ tokens.ts, display
\* Private.updateCellDisplay with a live list: all CELL_CLASSES are removed, then the
\* class of the binding's index (mod the number of classes) and its mimeType are set
UpdateCellDisplay(cell, list) ==
  LET indexOf == FindIndex(list, cell.meta)
  IN IF indexOf > -1
     THEN [cell EXCEPT !.cls = indexOf % NumCellClasses,
                       !.mimeType = IF list[indexOf + 1].mimeType # ""
                                    THEN list[indexOf + 1].mimeType ELSE "shell"]
     ELSE [cell EXCEPT !.cls = -1, !.mimeType = "python"]

\* Private.updateCellDisplay while `bindings` is null: the classes are removed and
\* bindings.iter() throws before the mimeType is assigned (the signal absorbs the throw)
UpdateCellDisplayNoList(cell) == [cell EXCEPT !.cls = -1]

\* the listener installed by onCellsChanged, run with createNew's current `bindings`
RenderCell(cell, ctl, trks) ==
  IF ctl = NoTracker THEN UpdateCellDisplayNoList(cell)
  ELSE UpdateCellDisplay(cell, trks[ctl].bindings)

OnBindingsChangedFirstCodeCell(cs, list) ==
  LET code == {j \in 1..Len(cs) : cs[j].type = "code"}
  IN [i \in 1..Len(cs) |->
        IF i \in code /\ \A j \in code : i <= j THEN UpdateCellDisplay(cs[i], list) ELSE cs[i]]
OnBindingsChangedClearing(cs, list) ==
  [i \in 1..Len(cs) |->
     IF cs[i].type = "code"
     THEN UpdateCellDisplay([cs[i] EXCEPT !.meta = IF FindIndex(list, @) > -1
                                                   THEN @ ELSE NoName], list)
     ELSE cs[i]]
\* onBindingsChanged: every code cell is re-rendered against the subscribed list
OnBindingsChanged(cs, list) ==
  [i \in 1..Len(cs) |-> IF cs[i].type = "code" THEN UpdateCellDisplay(cs[i], list) ELSE cs[i]]

\* ------------------------------------------------------- binding.ts, _onCommMsg
FindTrackerOfAnyEntry(commId) ==
  LET hits == {k \in AllKernels : bindingsMap[k] # NoTracker
                                  /\ trackers[bindingsMap[k]].comm # NoComm}
  IN IF commId = 0 \/ hits = {} THEN NoTracker ELSE bindingsMap[CHOOSE k \in hits : TRUE]
FindTrackerByCommKernel(commId) ==
  IF commId = 0 THEN NoTracker ELSE bindingsMap[comms[commId].kernel]
FindTrackerAmongAll(commId) ==
  LET hits == {t \in 1..Len(trackers) : trackers[t].comm # NoComm /\ trackers[t].comm = commId}
  IN IF hits = {} THEN NoTracker ELSE CHOOSE t \in hits : TRUE
\* _findTrackerByCommId: the tracker of a registry entry whose comm has this id
FindTrackerByCommId(commId) ==
  LET hits == {k \in AllKernels : bindingsMap[k] # NoTracker
                                  /\ trackers[bindingsMap[k]].comm # NoComm
                                  /\ trackers[bindingsMap[k]].comm = commId}
  IN IF hits = {} THEN NoTracker ELSE bindingsMap[CHOOSE k \in hits : TRUE]

OnListReplyNoClear(list, bs) == ListPushAll(list, bs)
\* case 'binding_list_reply'
OnListReply(list, bs) == ListPushAll(ListClear(list), bs)

OnBindingUpdateAlwaysPush(list, binding) == ListPush(list, binding)
\* case 'binding_update'
OnBindingUpdate(list, binding) ==
  LET bindingIndex == FindIndex(list, binding.name)
  IN IF bindingIndex > -1 THEN ListSet(list, bindingIndex, binding)
     ELSE ListPush(list, binding)

OnBindingRemoveUnchecked(list, binding) ==
  LET bindingIndex == FindIndex(list, binding.name)
  IN IF bindingIndex > -1 THEN ListRemove(list, bindingIndex)
     ELSE IF list # <<>> THEN ListRemove(list, Len(list) - 1) ELSE list
\* case 'binding_remove'
OnBindingRemove(list, binding) ==
  LET bindingIndex == FindIndex(list, binding.name)
  IN IF bindingIndex > -1 THEN ListRemove(list, bindingIndex) ELSE list

\* locateBinding() throws a TypeError: the callback of findIndex reads `name` of the
\* undefined data.binding at the first entry it is called for. findIndex calls it
\* for no entry when the list is empty or starts with an undefined entry
LocateThrows(list, binding) ==
  binding = NoBinding /\ ToArray(list) # <<>>

\* _onCommMsg throws: locateBinding, or pushAll(undefined) after the clear
HandlerThrows(list, data) ==
  CASE data.event = "binding_list_reply" -> data.malformed
    [] data.event \in {"binding_update", "binding_remove"} -> LocateThrows(list, data.binding)
    [] OTHER -> FALSE

HandleEventClearingOnUnknown(list, data) ==
  CASE data.event = "binding_list_reply" ->
         IF data.malformed THEN ListClear(list) ELSE OnListReply(list, data.bindings)
    [] data.event = "binding_update" ->
         IF LocateThrows(list, data.binding) THEN list
         ELSE OnBindingUpdate(list, data.binding)
    [] data.event = "binding_remove" ->
         IF LocateThrows(list, data.binding) THEN list
         ELSE OnBindingRemove(list, data.binding)
    [] OTHER -> ListClear(list)
\* the switch over data.event, up to the statement that throws
HandleEvent(list, data) ==
  CASE data.event = "binding_list_reply" ->
         IF data.malformed THEN ListClear(list) ELSE OnListReply(list, data.bindings)
    [] data.event = "binding_update" ->
         IF LocateThrows(list, data.binding) THEN list
         ELSE OnBindingUpdate(list, data.binding)
    [] data.event = "binding_remove" ->
         IF LocateThrows(list, data.binding) THEN list
         ELSE OnBindingRemove(list, data.binding)
    [] OTHER -> list

\* the list contents at each emission of the list's `changed` signal, in order
Emissions(list, data) ==
  CASE data.event = "binding_list_reply" ->
         IF data.malformed THEN <<ListClear(list)>>
         ELSE <<ListClear(list), OnListReply(list, data.bindings)>>
    [] data.event = "binding_update" ->
         IF LocateThrows(list, data.binding) THEN <<>>
         ELSE <<OnBindingUpdate(list, data.binding)>>
    [] data.event = "binding_remove" ->
         IF ~LocateThrows(list, data.binding) /\ FindIndex(list, data.binding.name) > -1
         THEN <<OnBindingRemove(list, data.binding)>> ELSE <<>>
    [] OTHER -> <<>>

RECURSIVE NotifyAll(_, _)
NotifyAll(cs, emitted) ==
  IF emitted = <<>> THEN cs ELSE NotifyAll(OnBindingsChanged(cs, Head(emitted)), Tail(emitted))

\* _onCommMsg(msg): commId is msg.content.comm_id (0: absent), data is msg.content.data
OnCommMsgEffect(commId, data) ==
  LET tracker == FindTrackerByCommId(commId)
      emitted == Emissions(trackers[tracker].bindings, data)
  IN /\ commId \in 0..Len(comms)
     /\ IF commId = 0 \/ tracker = NoTracker
        THEN /\ last' = Call("onCommMsg", NoKernel, commId, "", data, NoTracker)
             /\ UNCHANGED <<registryVars, notebookVars>>
        ELSE /\ trackers' = [trackers EXCEPT
                               ![tracker].bindings = HandleEvent(trackers[tracker].bindings, data)]
             /\ IF tracker \in listSlots /\ emitted # <<>>
                THEN /\ cells' = NotifyAll(cells, emitted)
                     /\ switcherList' = ToArray(emitted[Len(emitted)])
                ELSE UNCHANGED <<cells, switcherList>>
             /\ last' = [Call("onCommMsg", NoKernel, commId, "", data, tracker)
                           EXCEPT !.threw = HandlerThrows(trackers[tracker].bindings, data),
                                  !.emitted = Len(emitted)]
             /\ UNCHANGED <<bindingsMap, comms, connStatus, statusSlots, disposedSlots,
                            kernelDisposed, ctlBindings, listSlots>>

\* a message handed to _onCommMsg, whatever the state of the comm it names
OnCommMsg(commId, data) == OnCommMsgEffect(commId, data) /\ UNCHANGED sideVars

\* ------------------------------------------------------------------ binding.ts
RegisterEffectAlwaysNew(kernel) ==
  LET tracker == Len(trackers) + 1
  IN /\ trackers' = Append(trackers,
                           [bindings |-> <<>>, comm |-> NoComm, isDisposed |-> FALSE])
     /\ statusSlots' = [statusSlots EXCEPT ![kernel] = @ \cup {tracker}]
     /\ disposedSlots' = [disposedSlots EXCEPT ![kernel] = @ \cup {tracker}]
     /\ bindingsMap' = [bindingsMap EXCEPT ![kernel] = tracker]
     /\ UNCHANGED <<comms, connStatus, kernelDisposed>>
\* register(kernel)
RegisterEffect(kernel) ==
  IF bindingsMap[kernel] # NoTracker
  THEN UNCHANGED registryVars
  ELSE LET tracker == Len(trackers) + 1
       IN /\ trackers' = Append(trackers,
                                [bindings |-> <<>>, comm |-> NoComm, isDisposed |-> FALSE])
          /\ statusSlots' = [statusSlots EXCEPT ![kernel] = @ \cup {tracker}]
          /\ disposedSlots' = [disposedSlots EXCEPT ![kernel] = @ \cup {tracker}]
          /\ bindingsMap' = [bindingsMap EXCEPT ![kernel] = tracker]
          /\ UNCHANGED <<comms, connStatus, kernelDisposed>>

Register(kernel) ==
  /\ bindingsMap[kernel] = NoTracker => Len(trackers) < MaxTrackers
  /\ RegisterEffect(kernel)
  /\ last' = Call("register", kernel, 0, "", NoData, bindingsMap'[kernel])
  /\ UNCHANGED <<notebookVars, sideVars>>

\* comm.close(): comm_close is sent and the comm is disposed
CommClose(comm) == [comm EXCEPT !.onMsg = FALSE, !.isDisposed = TRUE, !.closed = TRUE]
\* comm.dispose(): the comm is dropped locally, its handlers are reset
CommDispose(comm) == [comm EXCEPT !.onMsg = FALSE, !.isDisposed = TRUE]

\* comm.close() and comm.open() (CommHandler of @jupyterlab/services) throw when the
\* comm or its kernel connection is disposed
CommUsable(comm, kernelIsDisposed) == ~comm.isDisposed /\ ~kernelIsDisposed

\* unregister(kernel), called while kernel.isDisposed has the value kernelIsDisposed:
\* comm.close() throws before the entry is deleted
UnregisterThrows(kernel, kernelIsDisposed) ==
  /\ bindingsMap[kernel] # NoTracker
  /\ trackers[bindingsMap[kernel]].comm # NoComm
  /\ ~CommUsable(comms[trackers[bindingsMap[kernel]].comm], kernelIsDisposed)

\* bindings.dispose() does something: the kernel has an entry whose list is not
\* disposed yet (ObservableList.dispose returns at once when isDisposed is set)
ListDisposes(kernel) ==
  /\ bindingsMap[kernel] # NoTracker
  /\ ~trackers[bindingsMap[kernel]].isDisposed

\* bindings.dispose(): the list is emptied and its signal's slots are dropped
TrackersAfterUnregister(kernel) ==
  IF ~ListDisposes(kernel) THEN trackers
  ELSE [trackers EXCEPT ![bindingsMap[kernel]].bindings = <<>>,
                        ![bindingsMap[kernel]].isDisposed = TRUE]

ListSlotsAfterUnregister(kernel) ==
  IF ListDisposes(kernel) THEN listSlots \ {bindingsMap[kernel]} ELSE listSlots
PanelSlotsAfterUnregister(kernel) ==
  IF ListDisposes(kernel) THEN panelListSlots \ {bindingsMap[kernel]} ELSE panelListSlots

\* comm.onMsg = null; comm.close()
CommsAfterUnregister(kernel, kernelIsDisposed) ==
  IF bindingsMap[kernel] = NoTracker \/ trackers[bindingsMap[kernel]].comm = NoComm
  THEN comms
  ELSE LET comm == trackers[bindingsMap[kernel]].comm
       IN IF CommUsable(comms[comm], kernelIsDisposed)
          THEN [comms EXCEPT ![comm] = CommClose(comms[comm])]
          ELSE [comms EXCEPT ![comm].onMsg = FALSE]

\* this._bindings.delete(kernel), reached when nothing threw before it
MapAfterUnregister(kernel, kernelIsDisposed) ==
  IF UnregisterThrows(kernel, kernelIsDisposed) THEN bindingsMap
  ELSE [bindingsMap EXCEPT ![kernel] = NoTracker]

\* unregister(kernel)
Unregister(kernel) ==
  /\ trackers' = TrackersAfterUnregister(kernel)
  /\ listSlots' = ListSlotsAfterUnregister(kernel)
  /\ panelListSlots' = PanelSlotsAfterUnregister(kernel)
  /\ comms' = CommsAfterUnregister(kernel, kernelDisposed[kernel])
  /\ bindingsMap' = MapAfterUnregister(kernel, kernelDisposed[kernel])
  /\ last' = [Call("unregister", kernel, 0, "", NoData, bindingsMap[kernel])
                EXCEPT !.threw = UnregisterThrows(kernel, kernelDisposed[kernel])]
  /\ UNCHANGED <<connStatus, statusSlots, disposedSlots, kernelDisposed,
                 cells, ctlBindings, switcherList, display, adapterVars, ctlDisposed,
                 sessionKernel,
                 focusVars, remoteVars>>

\* kernel.dispose() (KernelConnection of @jupyterlab/services): isDisposed is set, then
\* `disposed` is emitted: every connected onKernelDisposed disconnects its two slots
\* and calls unregister(kernel), whose error leaves the handler; the connection then
\* goes 'disconnected', disposes its comms and drops its signals' slots
KernelDispose(kernel) ==
  LET ran == disposedSlots[kernel] # {}
      afterUnregister == IF ran THEN CommsAfterUnregister(kernel, TRUE) ELSE comms
  IN /\ ~kernelDisposed[kernel]
     /\ kernelDisposed' = [kernelDisposed EXCEPT ![kernel] = TRUE]
     /\ trackers' = IF ran THEN TrackersAfterUnregister(kernel) ELSE trackers
     /\ listSlots' = IF ran THEN ListSlotsAfterUnregister(kernel) ELSE listSlots
     /\ panelListSlots' = IF ran THEN PanelSlotsAfterUnregister(kernel) ELSE panelListSlots
     /\ bindingsMap' = IF ran THEN MapAfterUnregister(kernel, TRUE) ELSE bindingsMap
     /\ comms' = [c \in 1..Len(comms) |->
                    IF comms[c].kernel = kernel THEN CommDispose(afterUnregister[c])
                    ELSE afterUnregister[c]]
     /\ statusSlots' = [statusSlots EXCEPT ![kernel] = {}]
     /\ disposedSlots' = [disposedSlots EXCEPT ![kernel] = {}]
     /\ connStatus' = [connStatus EXCEPT ![kernel] = "disconnected"]
     /\ last' = [Call("kernelDisposed", kernel, 0, "", NoData, bindingsMap[kernel])
                   EXCEPT !.threw = ran /\ UnregisterThrows(kernel, TRUE)]
     /\ UNCHANGED <<cells, ctlBindings, switcherList, display, adapterVars, ctlDisposed,
                    sessionKernel,
                    focusVars, remoteVars>>

NotRegistered == -1
GetBindingsResultLenient(kernel) == bindingsMap[kernel]
\* getBindings(kernel): throws when the kernel has no entry
GetBindingsResult(kernel) ==
  IF bindingsMap[kernel] = NoTracker THEN NotRegistered ELSE bindingsMap[kernel]

GetBindings(kernel) ==
  /\ last' = Call("getBindings", kernel, 0, "", NoData, GetBindingsResult(kernel))
  /\ UNCHANGED <<registryVars, notebookVars, sideVars>>

\* createComm(): kernel.createComm(COMM_CHANNEL), onMsg bound to _onCommMsg, open();
\* the binding_list_request of the status handler is counted in `requests`
NewComm(kernel) ==
  [kernel |-> kernel, target |-> COMM_CHANNEL, onMsg |-> TRUE, opened |-> TRUE,
   isDisposed |-> FALSE, closed |-> FALSE, requests |-> 1]

\* position of a slot among the connected slots, in connection order
SlotRank(tracker, slots) == Cardinality({u \in slots : u <= tracker})

\* createComm() throws: kernel.createComm refuses a connection that handles no comms
CreateCommThrows(kernel) == ~HandleComms(kernel)

\* `tracker.comm = createComm()` with createComm throwing: nothing is assigned and the
\* error leaves the handler there
TrackersAfterFailedOpen(slots) == trackers

\* onKernelConnectionStatusChanged throws: on 'connected' the error of createComm is
\* caught nowhere in the handler
StatusHandlerThrows(kernel, status) ==
  /\ status = "connected"
  /\ statusSlots[kernel] # {}
  /\ CreateCommThrows(kernel)

\* onKernelConnectionStatusChanged of one registration, for every connected slot
OnKernelConnectionStatusChanged(kernel, status) ==
  LET slots == statusSlots[kernel]
      base == Len(comms)
      stale == {trackers[t].comm : t \in slots} \ {NoComm}
      disposing == [c \in 1..base |->
                      IF c \in stale THEN CommDispose(comms[c]) ELSE comms[c]]
  IN IF status # "connected" THEN UNCHANGED <<comms, trackers>>
     ELSE IF CreateCommThrows(kernel)
          THEN /\ comms' = disposing
               /\ trackers' = TrackersAfterFailedOpen(slots)
          ELSE /\ comms' = disposing \o [n \in 1..Cardinality(slots) |-> NewComm(kernel)]
               /\ trackers' = [t \in 1..Len(trackers) |->
                                 IF t \in slots
                                 THEN [trackers[t] EXCEPT !.comm = base + SlotRank(t, slots)]
                                 ELSE trackers[t]]

\* the kernel's connectionStatusChanged signal fires with a new status
StatusChangeEffect(kernel, status) ==
  /\ ~kernelDisposed[kernel]
  /\ status # connStatus[kernel]
  /\ (status = "connected" /\ HandleComms(kernel))
       => Len(comms) + Cardinality(statusSlots[kernel]) <= MaxComms
  /\ connStatus' = [connStatus EXCEPT ![kernel] = status]
  /\ OnKernelConnectionStatusChanged(kernel, status)
  /\ last' = [Call("statusChanged", kernel, 0, status, NoData, bindingsMap[kernel])
                EXCEPT !.threw = StatusHandlerThrows(kernel, status)]
  /\ UNCHANGED <<bindingsMap, statusSlots, disposedSlots, kernelDisposed, notebookVars>>

StatusChange(kernel, status) == StatusChangeEffect(kernel, status) /\ UNCHANGED sideVars

\* ------------------------------------------------------------ status-panel.tsx
\* the constructor: _currentNotebook is the tracker's currentWidget (a notebook or
\* null) and its kernelChanged signal is not connected; the first refresh() finds no
\* kernel in any session and shows the placeholder
InitPanel ==
  /\ sessionKernel = [n \in Notebooks |-> NoKernel]
  /\ panelNotebook \in Notebooks \cup {NoNotebook}
  /\ panelKernelSlots = {}
  /\ panelContent = NoTracker
  /\ panelListSlots = {}

\* refresh() shows the bindings of a kernel named 'hydra'
ShowsBindings(kernel) == kernel # NoKernel /\ KernelName(kernel) = "hydra"

\* refresh() throws: getBindings refuses a kernel without registry entry
RefreshThrows(kernel, map) == ShowsBindings(kernel) /\ map[kernel] = NoTracker

\* the list refresh() gives a new BindingListWidget; NoTracker: setContent(null)
RefreshContent(kernel, map) == IF ShowsBindings(kernel) THEN map[kernel] ELSE NoTracker

SlotsAfterSetContentLeaking(slots, old, new) == slots \cup ({new} \ {NoTracker})
\* setContent: the widget shown leaves the layout, which unmounts its
\* BindingStatusList (componentWillUnmount disconnects it from the list `old`); the
\* new content is attached, which mounts a BindingStatusList (its constructor
\* connects it to the list `new`); the placeholder connects nothing
SlotsAfterSetContent(slots, old, new) == (slots \ {old}) \cup ({new} \ {NoTracker})

\* refresh() with _currentNotebook = notebook, the sessions' kernels and the registry
\* as the handlers that ran before it left them
Refresh(notebook, kernels, map) ==
  LET kernel == IF notebook = NoNotebook THEN NoKernel ELSE kernels[notebook]
      content == RefreshContent(kernel, map)
  IN IF RefreshThrows(kernel, map)
     THEN UNCHANGED <<panelContent, panelListSlots>>
     ELSE /\ panelContent' = content
          /\ panelListSlots' = SlotsAfterSetContent(panelListSlots, panelContent, content)

KernelSlotsKeepingPrevious(slots, previous, notebook) == slots \cup {notebook}
\* _onCurrentChanged: kernelChanged of the previous notebook is disconnected, that of
\* the new one connected
KernelSlotsAfterCurrentChanged(slots, previous, notebook) ==
  (slots \ {previous}) \cup {notebook}

\* _onCurrentChanged throws a TypeError: with notebook null, line 76 reads
\* sessionContext of the null it has just stored in _currentNotebook
CurrentChangedThrows(notebook) == notebook = NoNotebook

\* _onCurrentChanged(tracker, notebook): the workspace focus moved to another
\* notebook, or to none (notebook null): kernelChanged of the previous notebook is
\* disconnected and null stored, then the handler throws before connect and refresh
OnCurrentChanged(notebook) ==
  LET kernel == IF notebook = NoNotebook THEN NoKernel ELSE sessionKernel[notebook]
  IN /\ notebook # panelNotebook
     /\ panelNotebook' = notebook
     /\ IF CurrentChangedThrows(notebook)
        THEN /\ panelKernelSlots' = panelKernelSlots \ {panelNotebook}
             /\ UNCHANGED <<panelContent, panelListSlots>>
        ELSE /\ panelKernelSlots' =
                  KernelSlotsAfterCurrentChanged(panelKernelSlots, panelNotebook, notebook)
             /\ Refresh(notebook, sessionKernel, bindingsMap)
     /\ last' = [Call("currentChanged", kernel, 0, notebook, NoData, panelContent')
                   EXCEPT !.threw = \/ CurrentChangedThrows(notebook)
                                    \/ RefreshThrows(kernel, bindingsMap)]
     /\ UNCHANGED <<registryVars, notebookVars, display, adapterVars, ctlDisposed, sessionKernel,
                    remoteVars>>

\* the panel's _onKernelChanged, run when it is connected to that notebook's signal
PanelOnKernelChanged(notebook) ==
  IF notebook \in panelKernelSlots
  THEN Refresh(panelNotebook, sessionKernel', bindingsMap')
  ELSE UNCHANGED <<panelContent, panelListSlots>>

\* the panel's _onKernelChanged throws: refresh() looks up a kernel without entry
PanelKernelChangedThrows(notebook) ==
  /\ notebook \in panelKernelSlots
  /\ panelNotebook # NoNotebook
  /\ RefreshThrows(sessionKernel'[panelNotebook], bindingsMap')

\* -------------------------------------------------- tokens.ts, createNew handlers
\* the notebook whose cells and controller subscription the model keeps
ControllerNotebook == "n1"

CtlSlotsKeepingPrevious(slots, previous, new) == slots \cup ({new} \ {NoTracker})
\* onKernelChanged: onBindingsChanged is disconnected from the list held in `bindings`
\* and connected to the list register returned (NoTracker: the new kernel is null)
CtlSlotsAfterKernelChanged(slots, previous, new) ==
  (slots \ {previous}) \cup ({new} \ {NoTracker})

\* sessionContext.kernelChanged of the controller's notebook, changed.newValue =
\* kernel: the controller's onKernelChanged (connected by createNew until its
\* disposable is disposed), then the panel's _onKernelChanged when the notebook has
\* the focus
OnKernelChanged(kernel) ==
  /\ (~ctlDisposed /\ kernel # NoKernel /\ bindingsMap[kernel] = NoTracker)
       => Len(trackers) < MaxTrackers
  /\ IF ctlDisposed
     THEN UNCHANGED <<registryVars, ctlBindings>>
     ELSE IF kernel # NoKernel
          THEN /\ RegisterEffect(kernel)
               /\ ctlBindings' = bindingsMap'[kernel]
          ELSE /\ ctlBindings' = NoTracker
               /\ UNCHANGED registryVars
  /\ listSlots' = IF ctlDisposed THEN listSlots
                  ELSE CtlSlotsAfterKernelChanged(listSlots, ctlBindings, ctlBindings')
  /\ sessionKernel' = [sessionKernel EXCEPT ![ControllerNotebook] = kernel]
  /\ PanelOnKernelChanged(ControllerNotebook)
  /\ last' = [Call("kernelChanged", kernel, 0, ControllerNotebook, NoData, ctlBindings')
                EXCEPT !.threw = PanelKernelChangedThrows(ControllerNotebook)]
  /\ UNCHANGED <<cells, switcherList, display, adapterVars, ctlDisposed, panelNotebook,
                 panelKernelSlots, remoteVars>>

\* sessionContext.kernelChanged of another notebook: its controller registers the
\* kernel (that controller's own subscription is kept in no variable), then the
\* panel's _onKernelChanged runs when the notebook has the focus
OtherKernelChanged(notebook, kernel) ==
  /\ notebook # ControllerNotebook
  /\ kernel # NoKernel /\ bindingsMap[kernel] = NoTracker => Len(trackers) < MaxTrackers
  /\ IF kernel # NoKernel THEN RegisterEffect(kernel) ELSE UNCHANGED registryVars
  /\ sessionKernel' = [sessionKernel EXCEPT ![notebook] = kernel]
  /\ PanelOnKernelChanged(notebook)
  /\ last' = [Call("kernelChanged", kernel, 0, notebook, NoData,
                    IF kernel # NoKernel THEN bindingsMap'[kernel] ELSE NoTracker)
                EXCEPT !.threw = PanelKernelChangedThrows(notebook)]
  /\ UNCHANGED <<notebookVars, display, adapterVars, ctlDisposed, panelNotebook, panelKernelSlots,
                 remoteVars>>

\* a cell as the notebook model hands it over: no listener yet, the editor's own
\* display; its source text is read by onCellsChanged only, so it stays an input
NewCell(type, meta) ==
  [type |-> type, meta |-> meta, listeners |-> 0, cls |-> -1, mimeType |-> "default"]
NewCells == {NewCell(ty, m) : ty \in {"code", "markdown"}, m \in Names \cup {NoName}}
Texts == {"", "x"}

InsertAt(cs, index, cell) ==
  [i \in 1..(Len(cs) + 1) |->
     IF i <= index THEN cs[i] ELSE IF i = index + 1 THEN cell ELSE cs[i - 1]]

ShouldSeedIgnoringText(cs, newIndex, text) ==
  /\ newIndex > 0
  /\ cs[newIndex + 1].meta = NoName
  /\ cs[newIndex].meta # NoName
\* the seeding condition of onCellsChanged
ShouldSeed(cs, newIndex, text) ==
  /\ newIndex > 0
  /\ Len(text) = 0
  /\ cs[newIndex + 1].meta = NoName
  /\ cs[newIndex].meta # NoName

\* cell.metadata.set(key, name) with the listeners of that cell: nothing is emitted
\* when the value is the one already stored
SetBindingName(cell, name, ctl, trks) ==
  IF cell.meta = name THEN cell
  ELSE IF cell.listeners > 0 THEN RenderCell([cell EXCEPT !.meta = name], ctl, trks)
       ELSE [cell EXCEPT !.meta = name]

\* cell.metadata.delete(key) with the listeners of that cell
RemoveBinding(cell, ctl, trks) ==
  IF cell.meta = NoName THEN cell
  ELSE IF cell.listeners > 0 THEN RenderCell([cell EXCEPT !.meta = NoName], ctl, trks)
       ELSE [cell EXCEPT !.meta = NoName]

\* onCellsChanged for an 'add' event at newIndex (0-based), the cell already inserted
OnCellsChanged(cs, newIndex, text, ctl, trks) ==
  IF cs[newIndex + 1].type # "code" THEN cs
  ELSE LET listening == [cs EXCEPT ![newIndex + 1].listeners = @ + 1]
       IN IF ShouldSeed(listening, newIndex, text)
          THEN [listening EXCEPT ![newIndex + 1] =
                  SetBindingName(@, listening[newIndex].meta, ctl, trks)]
          ELSE listening

\* the notebook model inserts a cell at newIndex and emits the 'add' event, which
\* runs onCellsChanged while createNew's disposable is not disposed
CellAdd(newIndex, cell, text) ==
  /\ Len(cells) < MaxCells
  /\ newIndex \in 0..Len(cells)
  /\ cells' = IF ctlDisposed THEN InsertAt(cells, newIndex, cell)
              ELSE OnCellsChanged(InsertAt(cells, newIndex, cell), newIndex, text,
                                  ctlBindings, trackers)
  /\ last' = [Call("cellAdd", NoKernel, newIndex, text, NoData, 0)
                EXCEPT !.cell = [type |-> cell.type, meta |-> cell.meta]]
  /\ UNCHANGED <<registryVars, ctlBindings, listSlots, switcherList, sideVars>>

\* the cell lists an 'add' event of several cells brings (cells.pushAll, insertAll)
NewCellLists == [1..2 -> NewCells]

InsertAllAt(cs, index, new) ==
  [i \in 1..(Len(cs) + Len(new)) |->
     IF i <= index THEN cs[i]
     ELSE IF i <= index + Len(new) THEN new[i - index] ELSE cs[i - Len(new)]]

\* the notebook model inserts several cells at newIndex and emits one 'add' event,
\* newValues holding them all: onCellsChanged reads cells.get(changed.newIndex) only
CellAddAll(newIndex, new, text) ==
  /\ Len(cells) + Len(new) <= MaxCells
  /\ newIndex \in 0..Len(cells)
  /\ cells' = IF ctlDisposed THEN InsertAllAt(cells, newIndex, new)
              ELSE OnCellsChanged(InsertAllAt(cells, newIndex, new), newIndex, text,
                                  ctlBindings, trackers)
  /\ last' = [Call("cellAddAll", NoKernel, newIndex, text, NoData, Len(new))
                EXCEPT !.cell = [type |-> new[1].type, meta |-> new[1].meta]]
  /\ UNCHANGED <<registryVars, ctlBindings, listSlots, switcherList, sideVars>>

\* notebook.activeCell is null, or the notebook has no model
NoActiveCell == -1

UpdateCellBindingEveryCell(active, name) ==
  /\ active \in {NoActiveCell} \cup 0..(Len(cells) - 1)
  /\ cells' = [i \in 1..Len(cells) |-> SetBindingName(cells[i], name, ctlBindings, trackers)]
  /\ last' = Call("updateCellBinding", NoKernel, active, name, NoData, 0)
  /\ UNCHANGED <<registryVars, ctlBindings, listSlots, switcherList, sideVars>>
\* ChameleonActions.updateCellBinding on the active cell (0-based index): returns at
\* once when there is no model or no active cell
UpdateCellBinding(active, name) ==
  /\ active \in {NoActiveCell} \cup 0..(Len(cells) - 1)
  /\ cells' = IF active = NoActiveCell THEN cells
              ELSE [cells EXCEPT ![active + 1] =
                      SetBindingName(@, name, ctlBindings, trackers)]
  /\ last' = Call("updateCellBinding", NoKernel, active, name, NoData, 0)
  /\ UNCHANGED <<registryVars, ctlBindings, listSlots, switcherList, sideVars>>

\* ChameleonActions.removeCellBinding on the active cell (0-based index): returns at
\* once when there is no model or no active cell
RemoveCellBinding(active) ==
  /\ active \in {NoActiveCell} \cup 0..(Len(cells) - 1)
  /\ cells' = IF active = NoActiveCell THEN cells
              ELSE [cells EXCEPT ![active + 1] = RemoveBinding(@, ctlBindings, trackers)]
  /\ last' = Call("removeCellBinding", NoKernel, active, "", NoData, 0)
  /\ UNCHANGED <<registryVars, ctlBindings, listSlots, switcherList, sideVars>>

\* ------------------------------------------- tokens.ts, Private.updateCellDisplay
\* the class names for binding display modifiers
CELL_CLASSES ==
  <<"chi-binding-0", "chi-binding-1", "chi-binding-2", "chi-binding-3", "chi-binding-4",
    "chi-binding-5", "chi-binding-6", "chi-binding-7", "chi-binding-8", "chi-binding-9">>
CellClassSet == {CELL_CLASSES[n] : n \in 1..Len(CELL_CLASSES)}

WidgetClassesNoCycle(classes, list, name) ==
  LET indexOf == FindIndex(list, name)
      kept == classes \ CellClassSet
  IN IF indexOf > -1 /\ indexOf < Len(CELL_CLASSES)
     THEN kept \cup {CELL_CLASSES[indexOf + 1]} ELSE kept
\* the widget's classes after updateCellDisplay: every entry of CELL_CLASSES is
\* removed, then the entry at (index of the cell's binding) % CELL_CLASSES.length is added
WidgetClasses(classes, list, name) ==
  LET indexOf == FindIndex(list, name)
      kept == classes \ CellClassSet
  IN IF indexOf > -1
     THEN kept \cup {CELL_CLASSES[(indexOf % Len(CELL_CLASSES)) + 1]} ELSE kept

\* collections of distinctly named bindings, longer than CELL_CLASSES
DisplayName(i) == "ctx-" \o ToString(i)
DisplayBinding(i) ==
  [name |-> DisplayName(i), mimeType |-> IF i % 2 = 0 THEN "" ELSE "text/x-r"]
DisplayLists ==
  {[i \in 1..(hi - lo + 1) |-> DisplayBinding(lo + i - 1)] :
     lo \in 0..MaxDisplayLen, hi \in 0..MaxDisplayLen}
\* the names a cell may be assigned: every listed name and one that is never listed
DisplayNames == {DisplayName(i) : i \in 0..MaxDisplayLen} \cup {"gone"}

NoWidget ==
  [meta |-> NoName, cls |-> -1, mimeType |-> "default", classes |-> {}, list |-> <<>>]
\* a cell widget before its first rendering, and the collection it is rendered against
DisplayInputs ==
  {[NoWidget EXCEPT !.classes = {"jp-Cell"}, !.list = l] : l \in DisplayLists}

\* the cell's assignment becomes `name` (NoName: none) and updateCellDisplay runs
Render(name) ==
  /\ display' = [UpdateCellDisplay([display EXCEPT !.meta = name], display.list)
                   EXCEPT !.classes = WidgetClasses(display.classes, display.list, name)]
  /\ last' = Call("updateCellDisplay", NoKernel, 0, name, NoData, 0)
  /\ UNCHANGED <<registryVars, notebookVars, adapterVars, ctlDisposed, panelVars, remoteVars>>

\* ------------------------------------------------------------------ cell-metadata.ts
CellModels == {"c1", "c2"}
METADATA_NAMESPACE == "chameleon"
BINDING_NAME_METADATA_KEY == METADATA_NAMESPACE \o ".binding_name"
\* a key another metadata producer owns
OtherKeys == {"tags"}
MetadataKeys == {BINDING_NAME_METADATA_KEY} \cup OtherKeys

InitAdapter ==
  /\ metadata = [c \in CellModels |-> [k \in MetadataKeys |-> NoName]]
  /\ metaSlots = [c \in CellModels |-> {}]
  /\ handlerMap = [c \in CellModels |-> <<>>]
  /\ adapterDisposed = FALSE

\* IObservableJSON.set / delete on one cell's metadata (NoName: the key is absent);
\* `changed` is emitted when the stored value changes
MapSetReplacingAll(md, key, value) == [k \in DOMAIN md |-> IF k = key THEN value ELSE NoName]
MapSet(md, key, value) == [md EXCEPT ![key] = value]
MapDelete(md, key) == [md EXCEPT ![key] = NoName]
MapEmits(md, key, value) == md[key] # value

RECURSIVE Ascending(_)
Ascending(S) ==
  IF S = {} THEN <<>>
  ELSE LET least == CHOOSE x \in S : \A y \in S : x <= y
       IN <<least>> \o Ascending(S \ {least})
Range(seq) == {seq[i] : i \in 1..Len(seq)}

OnChangeUnfiltered(key) == TRUE
\* onChange: fn() runs for a change of the binding-name key only
OnChange(key) == key = BINDING_NAME_METADATA_KEY

\* the callbacks run by one emission of cell.metadata.changed, in connection order
Fired(cell, key) == IF OnChange(key) THEN Ascending(metaSlots[cell]) ELSE <<>>

\* a write of `value` under `key` in one cell's metadata, by the adapter or by
\* another producer
MetadataWrite(op, cell, key, value, after) ==
  /\ metadata' = [metadata EXCEPT ![cell] = after]
  /\ last' = [Call(op, NoKernel, 0, value, NoData, 0)
                EXCEPT !.model = cell, !.key = key,
                       !.fired = IF MapEmits(metadata[cell], key, value)
                                 THEN Fired(cell, key) ELSE <<>>]
  /\ UNCHANGED <<registryVars, notebookVars, display, metaSlots, handlerMap,
                 adapterDisposed, ctlDisposed, panelVars, remoteVars>>

\* CellMetadata.setBindingName(cell, name)
AdapterSetBindingName(cell, name) ==
  MetadataWrite("setBindingName", cell, BINDING_NAME_METADATA_KEY, name,
                MapSet(metadata[cell], BINDING_NAME_METADATA_KEY, name))

\* CellMetadata.removeBinding(cell)
AdapterRemoveBinding(cell) ==
  MetadataWrite("removeBinding", cell, BINDING_NAME_METADATA_KEY, NoName,
                MapDelete(metadata[cell], BINDING_NAME_METADATA_KEY))

\* another producer sets or deletes (value = NoName) a key of its own
ProducerWrite(cell, key, value) ==
  MetadataWrite("otherWrite", cell, key, value, MapSet(metadata[cell], key, value))

\* CellMetadata.hasBinding(cell) and getBindingName(cell)
AdapterGetBindingName(cell) ==
  /\ last' = [Call("getBindingName", NoKernel, 0,
                    metadata[cell][BINDING_NAME_METADATA_KEY], NoData,
                    IF metadata[cell][BINDING_NAME_METADATA_KEY] # NoName THEN 1 ELSE 0)
                EXCEPT !.model = cell, !.key = BINDING_NAME_METADATA_KEY]
  /\ UNCHANGED <<registryVars, notebookVars, display, adapterVars, ctlDisposed, panelVars,
                 remoteVars>>

Registered == UNION {Range(handlerMap[c]) : c \in CellModels}

\* CellMetadata.onBindingNameChanged(cell, fn): a new onChange closure is connected
\* and appended to the cell's handlers
AdapterOnBindingNameChanged(cell) ==
  LET onChange == Cardinality(Registered) + 1
  IN /\ Cardinality(Registered) < MaxHandlers
     /\ metaSlots' = [metaSlots EXCEPT ![cell] = @ \cup {onChange}]
     /\ handlerMap' = [handlerMap EXCEPT ![cell] = @ \o <<onChange>>]
     /\ last' = [Call("onBindingNameChanged", NoKernel, 0, "", NoData, onChange)
                   EXCEPT !.model = cell]
     /\ UNCHANGED <<registryVars, notebookVars, display, metadata, adapterDisposed,
                    ctlDisposed, panelVars, remoteVars>>

DisconnectedLastOnly(cell) ==
  IF handlerMap[cell] = <<>> THEN {} ELSE {handlerMap[cell][Len(handlerMap[cell])]}
\* the closures CellMetadata.dispose() disconnects from one cell's metadata
Disconnected(cell) == Range(handlerMap[cell])

\* CellMetadata.dispose()
AdapterDispose ==
  /\ metaSlots' = [c \in CellModels |-> metaSlots[c] \ Disconnected(c)]
  /\ adapterDisposed' = TRUE
  /\ last' = Call("adapterDispose", NoKernel, 0, "", NoData, 0)
  /\ UNCHANGED <<registryVars, notebookVars, display, metadata, handlerMap, ctlDisposed,
                 panelVars, remoteVars>>

\* ------------------------------------------ tokens.ts, createNew's disposable
CellsAfterDisposeListening(cs) == cs
\* cellMetadata.dispose(): every onChange closure is disconnected from its cell
CellsAfterDispose(cs) == [i \in 1..Len(cs) |-> [cs[i] EXCEPT !.listeners = 0]]

\* the DisposableDelegate createNew returned is disposed: onCellsChanged and
\* onKernelChanged are disconnected, onBindingsChanged is disconnected from the list
\* in `bindings`, the adapter and the switcher are disposed
ControllerDispose ==
  /\ ~ctlDisposed
  /\ ctlDisposed' = TRUE
  /\ listSlots' = listSlots \ {ctlBindings}
  /\ cells' = CellsAfterDispose(cells)
  /\ metaSlots' = [c \in CellModels |-> metaSlots[c] \ Disconnected(c)]
  /\ adapterDisposed' = TRUE
  /\ switcherList' = <<>>
  /\ last' = Call("dispose", NoKernel, 0, ControllerNotebook, NoData, ctlBindings)
  /\ UNCHANGED <<registryVars, ctlBindings, display, metadata, handlerMap, panelVars,
                 remoteVars>>

\* ------------------------------------ the kernel side of the comm and the connection
\* The kernel side is not part of the repository: it is the environment the protocol
\* assumes. It keeps its bindings by name, answers a binding_list_request with all of
\* them and announces each change on the comms open to it; the connection delivers
\* in order and loses what is in flight when it drops.
SyncKernel == "k1"
\* the bindings of the kernel side: "a" with and without mimeType, and "b"
SyncModels == {b \in BindingModels : b.name = "a" \/ b.mimeType = ""}
MaxInFlight == 2

InitRemote ==
  /\ remote = <<>>
  /\ wire = <<>>
  /\ requests = <<>>
  /\ remoteComms = {}
  /\ settled = FALSE

\* one message per comm open at the kernel side
Broadcast(data) ==
  LET to == Ascending(remoteComms)
  IN [i \in 1..Len(to) |-> [comm |-> to[i], data |-> data]]

Connected == connStatus[SyncKernel] = "connected"

\* a binding of the kernel side appears or changes its attributes
RemoteUpdate(b) ==
  /\ ~settled
  /\ remote' = OnBindingUpdate(remote, b)
  /\ remote' # remote
  /\ wire' = IF Connected THEN wire \o Broadcast(UpdateData(b)) ELSE wire
  /\ Len(wire') <= MaxInFlight
  /\ last' = Call("remoteUpdate", SyncKernel, 0, "", UpdateData(b), 0)
  /\ UNCHANGED <<registryVars, notebookVars, display, adapterVars, ctlDisposed, panelVars,
                 requests, remoteComms, settled>>

\* a binding of the kernel side goes away
RemoteRemove(b) ==
  /\ ~settled
  /\ \E i \in 1..Len(remote) : remote[i] = b
  /\ remote' = OnBindingRemove(remote, b)
  /\ wire' = IF Connected THEN wire \o Broadcast(RemoveData(b)) ELSE wire
  /\ Len(wire') <= MaxInFlight
  /\ last' = Call("remoteRemove", SyncKernel, 0, "", RemoveData(b), 0)
  /\ UNCHANGED <<registryVars, notebookVars, display, adapterVars, ctlDisposed, panelVars,
                 requests, remoteComms, settled>>

\* the kernel side receives a comm_open with its binding_list_request and answers
\* on that comm with the bindings it holds
RemoteAnswer ==
  /\ requests # <<>>
  /\ remoteComms' = remoteComms \cup {Head(requests)}
  /\ requests' = Tail(requests)
  /\ wire' = Append(wire, [comm |-> Head(requests), data |-> ReplyData(remote)])
  /\ last' = Call("remoteAnswer", SyncKernel, Head(requests), "", ReplyData(remote), 0)
  /\ UNCHANGED <<registryVars, notebookVars, display, adapterVars, ctlDisposed, panelVars,
                 remote, settled>>

ResyncRequestsNone(base, slots) == <<>>
\* the comms on which the status handler sent binding_list_request
ResyncRequests(base, slots) == [n \in 1..Cardinality(slots) |-> base + n]

\* the connection's status changes: it comes up and every status handler reopens its
\* comm and requests the list, or it goes down and what was in flight is lost
SyncStatusChange(status) ==
  /\ ~settled
  /\ StatusChangeEffect(SyncKernel, status)
  /\ IF status = "connected"
     THEN /\ requests' = requests \o ResyncRequests(Len(comms), statusSlots[SyncKernel])
          /\ wire' = wire
     ELSE /\ requests' = <<>>
          /\ wire' = <<>>
  /\ UNCHANGED <<display, adapterVars, ctlDisposed, panelVars, remote, remoteComms, settled>>

\* the connection hands the oldest message in flight to _onCommMsg
SyncDeliver ==
  /\ wire # <<>>
  /\ Connected
  /\ OnCommMsgEffect(Head(wire).comm, Head(wire).data)
  /\ wire' = Tail(wire)
  /\ UNCHANGED <<display, adapterVars, ctlDisposed, panelVars, remote, requests, remoteComms,
                 settled>>

\* from here on the kernel side keeps its bindings and the connection its status
Settle ==
  /\ ~settled
  /\ settled' = TRUE
  /\ last' = Call("settle", SyncKernel, 0, "", NoData, 0)
  /\ UNCHANGED <<registryVars, notebookVars, display, adapterVars, ctlDisposed, panelVars,
                 remote, wire, requests, remoteComms>>

\* ------------------------------------------------------------- specifications
InitProgram ==
  /\ bindingsMap = [k \in AllKernels |-> NoTracker]
  /\ trackers = <<>>
  /\ comms = <<>>
  /\ connStatus = [k \in AllKernels |-> "connecting"]
  /\ statusSlots = [k \in AllKernels |-> {}]
  /\ disposedSlots = [k \in AllKernels |-> {}]
  /\ kernelDisposed = [k \in AllKernels |-> FALSE]
  /\ cells = <<>>
  /\ ctlBindings = NoTracker
  /\ listSlots = {}
  /\ switcherList = <<>>
  /\ ctlDisposed = FALSE
  /\ InitAdapter
  /\ InitPanel
  /\ InitRemote
  /\ last = Call("init", NoKernel, 0, "", NoData, 0)

\* the workspace with the panel constructed over any current widget
InitWorkspace == InitProgram /\ display = NoWidget
\* the program where the panel's first current widget does not matter (no focus
\* change happens and the panel's handlers are connected to nothing): no notebook
Init == InitWorkspace /\ panelNotebook = NoNotebook
\* the inputs of updateCellDisplay
InitDisplay == InitProgram /\ display \in DisplayInputs /\ panelNotebook = NoNotebook

\* the registry under its callers, the kernels' status signals and inbound messages
Next ==
  \/ \E k \in Kernels : Register(k)
  \/ \E k \in Kernels : Unregister(k)
  \/ \E k \in Kernels : GetBindings(k)
  \/ \E k \in Kernels, s \in ConnectionStatuses : StatusChange(k, s)
  \/ \E c \in 0..MaxComms, d \in LifecycleData : OnCommMsg(c, d)

Spec == Init /\ [][Next]_vars

\* one kernel's channel under every inbound payload
NextChannel ==
  \/ Register("k1")
  \/ \E s \in ConnectionStatuses : StatusChange("k1", s)
  \/ \E c \in 0..MaxComms, d \in InboundData : OnCommMsg(c, d)

SpecChannel == Init /\ [][NextChannel]_vars

\* one notebook's controller over the registry
NextNotebook ==
  \/ \E k \in {"k1", NoKernel} : OnKernelChanged(k)
  \/ \E i \in 0..MaxCells, c \in NewCells, tx \in Texts : CellAdd(i, c, tx)
  \/ \E i \in 0..MaxCells, n \in Names : UpdateCellBinding(i, n)
  \/ \E i \in 0..MaxCells : RemoveCellBinding(i)
  \/ StatusChange("k1", "connected")
  \/ \E c \in 0..MaxComms, d \in LifecycleData : OnCommMsg(c, d)

SpecNotebook == Init /\ [][NextNotebook]_vars

\* only binding_update events arrive on one kernel's channel
NextUpdates ==
  \/ Register("k1")
  \/ \E s \in ConnectionStatuses : StatusChange("k1", s)
  \/ \E c \in 0..MaxComms, b \in BindingModels : OnCommMsg(c, UpdateData(b))

SpecUpdates == Init /\ [][NextUpdates]_vars

\* the registry while kernel connections are disposed; k0 does not handle comms
DisposalKernels == {"k1", "k0"}
NextDisposal ==
  \/ \E k \in DisposalKernels : ~kernelDisposed[k] /\ Register(k)
  \/ \E k \in DisposalKernels : Unregister(k)
  \/ \E k \in DisposalKernels : KernelDispose(k)
  \/ \E k \in DisposalKernels : GetBindings(k)
  \/ \E k \in DisposalKernels, s \in ConnectionStatuses : StatusChange(k, s)
  \/ \E c \in 0..MaxComms, d \in LifecycleData : OnCommMsg(c, d)

SpecDisposal == Init /\ [][NextDisposal]_vars

\* one kernel's channel under malformed and unknown messages, with no controller
\* subscribed to the collection
\* (behind an undefined first entry every update appends, so the collection's length
\* is capped)
MaxListLen == 4
NextMalformed ==
  \/ Register("k1")
  \/ \E s \in ConnectionStatuses : StatusChange("k1", s)
  \/ \E c \in 0..MaxComms, d \in MalformedInbound :
       /\ OnCommMsg(c, d)
       /\ \A t \in 1..Len(trackers') : Len(trackers'[t].bindings) <= MaxListLen

SpecMalformed == Init /\ [][NextMalformed]_vars

\* updateCellDisplay over every input: the cell is assigned a name, or cleared, and
\* rendered
NextDisplay == \E n \in DisplayNames \cup {NoName} : Render(n)

SpecDisplay == InitDisplay /\ [][NextDisplay]_vars

\* the cell metadata adapter under its client and other metadata producers; the
\* client registers no callback after dispose (createNew's disposal disconnects
\* onCellsChanged, the only caller of onBindingNameChanged, before it disposes the
\* adapter)
NextAdapter ==
  \/ \E c \in CellModels, n \in Names : AdapterSetBindingName(c, n)
  \/ \E c \in CellModels : AdapterRemoveBinding(c)
  \/ \E c \in CellModels, k \in OtherKeys, v \in Names \cup {NoName} : ProducerWrite(c, k, v)
  \/ \E c \in CellModels : AdapterGetBindingName(c)
  \/ \E c \in CellModels : ~adapterDisposed /\ AdapterOnBindingNameChanged(c)
  \/ AdapterDispose

SpecAdapter == Init /\ [][NextAdapter]_vars

\* one notebook's session moving between two kernels and none, over the registry;
\* the inbound events add and remove one binding
SessionData == {UpdateData(OneModel), RemoveData(OneModel)}
NextSession ==
  \/ \E k \in Kernels \cup {NoKernel} : OnKernelChanged(k)
  \/ \E k \in Kernels : Unregister(k)
  \/ \E k \in Kernels, s \in {"connected", "disconnected"} : StatusChange(k, s)
  \/ \E c \in 0..MaxComms, d \in SessionData : OnCommMsg(c, d)

SpecSession == Init /\ [][NextSession]_vars

\* the status panel while the focus moves between two open notebooks and none, and
\* their sessions change kernel: n1 between a 'hydra' kernel and none, n2 between
\* another 'hydra' kernel, a kernel of another name and none
PanelKernels == [n \in Notebooks |-> IF n = ControllerNotebook THEN {"k1"} ELSE {"k2", "k0"}]
NextPanel ==
  \/ \E n \in Notebooks \cup {NoNotebook} : OnCurrentChanged(n)
  \/ \E k \in PanelKernels[ControllerNotebook] \cup {NoKernel} : OnKernelChanged(k)
  \/ \E n \in Notebooks : \E k \in PanelKernels[n] \cup {NoKernel} : OtherKernelChanged(n, k)
  \/ \E k \in Kernels : StatusChange(k, "connected")
  \/ \E c \in 0..MaxComms, d \in SessionData : OnCommMsg(c, d)

SpecPanel == InitWorkspace /\ [][NextPanel]_vars

\* the toolbar's two actions over a notebook whose cells come and go from the active
\* position, with and without an active cell, while one kernel fills the collection
NextToolbar ==
  \/ \E i \in 0..MaxCells, c \in NewCells : CellAdd(i, c, "x")
  \/ \E i \in {NoActiveCell} \cup 0..MaxCells, n \in Names : UpdateCellBinding(i, n)
  \/ \E i \in {NoActiveCell} \cup 0..MaxCells : RemoveCellBinding(i)
  \/ OnKernelChanged("k1")
  \/ StatusChange("k1", "connected")
  \/ \E c \in 0..MaxComms : OnCommMsg(c, UpdateData(OneModel))

\* the status panel and the registry while the focus moves, sessions change kernel
\* and kernel connections are disposed; a disposed connection is no session's new kernel
NextLookup ==
  \/ \E n \in Notebooks : OnCurrentChanged(n)
  \/ \E k \in PanelKernels[ControllerNotebook] \cup {NoKernel} :
       (k # NoKernel => ~kernelDisposed[k]) /\ OnKernelChanged(k)
  \/ \E n \in Notebooks : \E k \in PanelKernels[n] \cup {NoKernel} :
       (k # NoKernel => ~kernelDisposed[k]) /\ OtherKernelChanged(n, k)
  \/ \E k \in AllKernels : KernelDispose(k)
  \/ \E k \in AllKernels : StatusChange(k, "connected")
  \/ \E c \in 0..MaxComms, d \in SessionData : OnCommMsg(c, d)

SpecLookup == InitWorkspace /\ [][NextLookup]_vars

\* one notebook's controller until and after its disposable is disposed
NextController ==
  \/ \E k \in {"k1", NoKernel} : OnKernelChanged(k)
  \/ \E i \in 0..MaxCells, c \in NewCells : CellAdd(i, c, "")
  \/ \E i \in 0..MaxCells, n \in Names : UpdateCellBinding(i, n)
  \/ \E i \in 0..MaxCells : RemoveCellBinding(i)
  \/ StatusChange("k1", "connected")
  \/ \E c \in 0..MaxComms : OnCommMsg(c, UpdateData(OneModel))
  \/ ControllerDispose

SpecController == Init /\ [][NextController]_vars

SpecToolbar == Init /\ [][NextToolbar]_vars

\* the notebook's cell list growing by single cells and by several cells at once,
\* under the toolbar's actions and one kernel's collection
NextCells ==
  \/ \E i \in 0..MaxCells, c \in NewCells, tx \in Texts : CellAdd(i, c, tx)
  \/ \E i \in 0..MaxCells, new \in NewCellLists, tx \in Texts : CellAddAll(i, new, tx)
  \/ \E i \in 0..MaxCells, n \in Names : UpdateCellBinding(i, n)
  \/ OnKernelChanged("k1")
  \/ StatusChange("k1", "connected")
  \/ \E c \in 0..MaxComms : OnCommMsg(c, UpdateData(OneModel))

SpecCells == Init /\ [][NextCells]_vars

\* one kernel's registry entry against the kernel side, over a connection that drops
\* and comes back; messages in flight are delivered and requests are answered
NextSync ==
  \/ Register(SyncKernel)
  \/ \E s \in ConnectionStatuses : SyncStatusChange(s)
  \/ \E b \in SyncModels : RemoteUpdate(b)
  \/ \E b \in SyncModels : RemoteRemove(b)
  \/ RemoteAnswer
  \/ SyncDeliver
  \/ Settle

SpecSync ==
  Init /\ [][NextSync]_vars /\ WF_vars(SyncDeliver) /\ WF_vars(RemoteAnswer)

\* ------------------------------------------------------------------- properties
NamesOf(list) == {list[i].name : i \in 1..Len(list)}
DistinctNames(list) == \A i, j \in 1..Len(list) : list[i].name = list[j].name => i = j
\* the last call was an inbound `event` that _onCommMsg dispatched to a tracker
Handled(call, event) ==
  call.op = "onCommMsg" /\ call.res # NoTracker /\ call.data.event = event

\* C1: under binding_update events alone, handling an update for a name the collection
\* holds replaces that entry in place by the update's payload and touches no other
\* entry; an update for a new name appends its payload at the end; the names of the
\* resulting collection are pairwise distinct, so each name has one entry, holding the
\* payload of the last update that carried the name, in order of first appearance.
C1_UpsertKeepsOneEntryPerName ==
  [][Handled(last', "binding_update") =>
       LET old == trackers[last'.res].bindings
           new == trackers'[last'.res].bindings
           b == last'.data.binding
       IN /\ DistinctNames(new)
          /\ IF b.name \in NamesOf(old)
             THEN /\ Len(new) = Len(old)
                  /\ \A i \in 1..Len(old) :
                       new[i] = IF old[i].name = b.name THEN b ELSE old[i]
             ELSE new = old \o <<b>>]_vars

\* C1 witness: an update has replaced the first of two entries in place
C1_Witness ==
  /\ Handled(last, "binding_update")
  /\ LET list == trackers[last.res].bindings
     IN /\ Len(list) = 2
        /\ list[1] = last.data.binding
        /\ list[2].name # list[1].name

\* C2: once a binding_list_reply is handled, the collection is exactly the reply's
\* list, in the reply's order, whatever it held before.
C2_ReplyReplacesCollection ==
  [][Handled(last', "binding_list_reply")
       => trackers'[last'.res].bindings = last'.data.bindings]_vars

\* C2 witness: a reply was handled and left a two-entry collection
C2_Witness ==
  /\ Handled(last, "binding_list_reply")
  /\ Len(trackers[last.res].bindings) = 2

\* C3: register(k) for a kernel that has an entry returns that entry's collection,
\* and changes no collection, comm, slot or registry entry; while a kernel stays
\* registered its entry keeps the same collection.
C3_RegisterIdempotent ==
  [][/\ \A k \in Kernels :
          (bindingsMap[k] # NoTracker /\ bindingsMap'[k] # NoTracker)
            => bindingsMap'[k] = bindingsMap[k]
     /\ (last'.op = "register" /\ bindingsMap[last'.kernel] # NoTracker)
          => /\ last'.res = bindingsMap[last'.kernel]
             /\ UNCHANGED registryVars]_vars

\* C3 witness: register returned a collection that already holds a binding and has a
\* channel, so it was not the first registration of that kernel
C3_Witness ==
  /\ last.op = "register"
  /\ last.res # NoTracker
  /\ trackers[last.res].bindings # <<>>
  /\ trackers[last.res].comm # NoComm

\* C4: no inbound message, on whatever comm id, changes a disposed collection or the
\* registry's entries.
C4_DisposedCollectionUntouched ==
  [][last'.op = "onCommMsg" =>
       /\ bindingsMap' = bindingsMap
       /\ \A t \in 1..Len(trackers) :
            trackers[t].isDisposed => trackers'[t] = trackers[t]]_vars

\* C4 witness: an update arrived on an open channel that belongs to the tracker of an
\* unregistered kernel (a channel opened after unregister)
C4_Witness ==
  /\ last.op = "onCommMsg"
  /\ last.data.event = "binding_update"
  /\ \E t \in 1..Len(trackers) :
       /\ trackers[t].isDisposed
       /\ trackers[t].comm = last.arg
       /\ last.arg # NoComm
       /\ ~comms[last.arg].isDisposed

\* C4 second witness case: the update arrived on the channel closed by unregister
C4_WitnessClosedChannel ==
  /\ last.op = "onCommMsg"
  /\ last.data.event = "binding_update"
  /\ \E t \in 1..Len(trackers) :
       /\ trackers[t].isDisposed
       /\ trackers[t].comm = last.arg
       /\ last.arg # NoComm
       /\ comms[last.arg].closed

\* C5: a status change to 'connected' on a registered kernel closes the comm its
\* entry held (comm_close is sent), gives the entry a comm created in this step, open
\* on that kernel with the message handler attached, on which one binding_list_request
\* was sent; a change to another status leaves every comm and every tracker as it was.
C5_ResyncOnConnected ==
  [][(last'.op = "statusChanged" /\ bindingsMap[last'.kernel] # NoTracker) =>
       LET t == bindingsMap[last'.kernel]
           old == trackers[t].comm
           new == trackers'[t].comm
       IN IF last'.text = "connected"
          THEN /\ old # NoComm => comms'[old].closed
               /\ new > Len(comms) /\ new <= Len(comms')
               /\ comms'[new].kernel = last'.kernel
               /\ comms'[new].target = COMM_CHANNEL
               /\ comms'[new].opened /\ comms'[new].onMsg /\ ~comms'[new].isDisposed
               /\ comms'[new].requests = 1
          ELSE UNCHANGED <<comms, trackers>>]_vars

\* C6: an add event leaves every other cell as it was; the inserted cell ends with the
\* assignment of the cell before it exactly when it is a code cell, not the first
\* cell, came without assignment and with empty source text, and the cell before it
\* has an assignment; otherwise it keeps the assignment it came with.
C6_SeedingRule ==
  [][last'.op = "cellAdd" =>
       LET i == last'.arg
           c == last'.cell
           seeds == /\ c.type = "code" /\ i > 0 /\ c.meta = NoName
                    /\ last'.text = "" /\ cells[i].meta # NoName
       IN /\ Len(cells') = Len(cells) + 1
          /\ \A j \in 1..Len(cells) : cells'[IF j <= i THEN j ELSE j + 1] = cells[j]
          /\ cells'[i + 1].type = c.type
          /\ cells'[i + 1].meta = IF seeds THEN cells[i].meta ELSE c.meta]_vars

\* C6 witness: a code cell inserted after an assigned cell was seeded (the write ran
\* its listener, which rendered the cell; a cell that came with an assignment is not
\* rendered by the add event)
C6_Witness ==
  /\ last.op = "cellAdd" /\ last.arg > 0 /\ last.text = ""
  /\ last.cell = [type |-> "code", meta |-> NoName]
  /\ cells[last.arg + 1].meta = cells[last.arg].meta
  /\ cells[last.arg + 1].meta # NoName
  /\ cells[last.arg + 1].mimeType # "default"

\* C6 second witness case: source text kept a code cell after an assigned cell unseeded
C6_WitnessNotSeeded ==
  /\ last.op = "cellAdd" /\ last.arg > 0 /\ last.text # ""
  /\ last.cell = [type |-> "code", meta |-> NoName]
  /\ cells[last.arg].meta # NoName
  /\ cells[last.arg + 1].meta = NoName

NoBindingDisplay(cell) == cell.cls = -1 /\ cell.mimeType = "python"

\* C7: inbound binding events and kernel changes leave every cell's stored assignment
\* as it was; when a binding_remove takes the binding named n out of the collection
\* the controller observes, every code cell assigned to n keeps that assignment and
\* is displayed without binding class, with the default mimeType.
C7_AssignmentSurvivesRemoval ==
  [][/\ last'.op \in {"onCommMsg", "kernelChanged"} =>
          /\ Len(cells') = Len(cells)
          /\ \A i \in 1..Len(cells) : cells'[i].meta = cells[i].meta
     /\ (/\ Handled(last', "binding_remove")
         /\ last'.res \in listSlots
         /\ last'.data.binding.name \in NamesOf(trackers[last'.res].bindings)
         /\ last'.data.binding.name \notin NamesOf(trackers'[last'.res].bindings))
          => \A i \in 1..Len(cells) :
               (cells[i].type = "code" /\ cells[i].meta = last'.data.binding.name)
                 => /\ cells'[i].meta = last'.data.binding.name
                    /\ NoBindingDisplay(cells'[i])]_vars

\* C7 witness: the binding of an assigned code cell was removed from the observed
\* collection; the cell still names it and shows no binding
C7_Witness ==
  /\ Handled(last, "binding_remove")
  /\ last.res \in listSlots
  /\ last.data.binding.name \notin NamesOf(trackers[last.res].bindings)
  /\ \E i \in 1..Len(cells) :
       /\ cells[i].type = "code"
       /\ cells[i].meta = last.data.binding.name
       /\ NoBindingDisplay(cells[i])

\* C8: a handled binding_remove for a name the collection does not hold leaves the
\* collection as it was; for a name it holds, exactly one entry of that name is taken
\* out and the other entries keep their order.
C8_RemoveOneOrNothing ==
  [][Handled(last', "binding_remove") =>
       LET old == trackers[last'.res].bindings
           new == trackers'[last'.res].bindings
           n == last'.data.binding.name
       IN IF n \notin NamesOf(old)
          THEN new = old
          ELSE /\ Len(new) = Len(old) - 1
               /\ \E i \in 1..Len(old) :
                    /\ old[i].name = n
                    /\ \A j \in 1..Len(new) : new[j] = IF j < i THEN old[j] ELSE old[j + 1]]_vars

\* C8 witness: a remove was handled and the collection holds another binding
C8_Witness ==
  /\ Handled(last, "binding_remove")
  /\ trackers[last.res].bindings # <<>>
  /\ last.data.binding.name \notin NamesOf(trackers[last.res].bindings)

\* C8 second witness case: a remove was handled on an empty collection
C8_WitnessEmpty ==
  /\ Handled(last, "binding_remove")
  /\ trackers[last.res].bindings = <<>>

\* C9: the names within every registered kernel's collection are pairwise distinct.
C9_NamesDistinct ==
  \A k \in Kernels :
    bindingsMap[k] # NoTracker => DistinctNames(trackers[bindingsMap[k]].bindings)

\* C10: getBindings(k) fails with the not-registered error exactly when k has no
\* entry, else returns the entry's collection, and changes nothing either way; the
\* collection register(k) returns is the one of k's entry.
C10_GetBindings ==
  [][/\ last'.op = "getBindings" =>
          /\ last'.res = IF bindingsMap[last'.kernel] = NoTracker
                         THEN NotRegistered ELSE bindingsMap[last'.kernel]
          /\ UNCHANGED <<registryVars, notebookVars>>
     /\ last'.op = "register" =>
          /\ last'.res = bindingsMap'[last'.kernel]
          /\ last'.res # NoTracker]_vars

\* C10 witness: getBindings failed for a kernel that was registered and then
\* unregistered
C10_Witness ==
  /\ last.op = "getBindings" /\ last.res = NotRegistered
  /\ statusSlots[last.kernel] # {}
  /\ bindingsMap[last.kernel] = NoTracker

\* C10 second witness case: getBindings returned the collection of a registered kernel
C10_WitnessRegistered ==
  /\ last.op = "getBindings" /\ last.res # NotRegistered
  /\ last.res = bindingsMap[last.kernel]

\* C11: unregister(k) - called by a client or by the disposal handler - on a
\* registered kernel raises no error, disposes k's collection, closes the channel k's
\* entry holds and removes the entry, leaving every other kernel's entry and
\* collection as they were; on a kernel without entry it raises no error and changes
\* nothing.
C11_UnregisterFrame ==
  [][(\/ last'.op = "unregister"
      \/ last'.op = "kernelDisposed" /\ bindingsMap[last'.kernel] # NoTracker) =>
       LET k == last'.kernel
           t == bindingsMap[k]
       IN /\ ~last'.threw
          /\ IF t = NoTracker THEN UNCHANGED <<registryVars, notebookVars>>
             ELSE /\ trackers'[t].isDisposed /\ trackers'[t].bindings = <<>>
                  /\ trackers[t].comm # NoComm => comms'[trackers[t].comm].closed
                  /\ bindingsMap'[k] = NoTracker
                  /\ \A j \in AllKernels \ {k} :
                       /\ bindingsMap'[j] = bindingsMap[j]
                       /\ bindingsMap[j] # NoTracker
                            => trackers'[bindingsMap[j]] = trackers[bindingsMap[j]]]_vars

\* C12: when a registered kernel connection is disposed, in that step its entry is
\* removed, its collection is disposed, the channel the entry held is closed, and the
\* registry's status and disposal handlers are disconnected from the connection.
C12_DisposalUnregisters ==
  [][(last'.op = "kernelDisposed" /\ bindingsMap[last'.kernel] # NoTracker) =>
       LET k == last'.kernel
           t == bindingsMap[k]
       IN /\ bindingsMap'[k] = NoTracker
          /\ trackers'[t].isDisposed
          /\ trackers[t].comm # NoComm => comms'[trackers[t].comm].closed
          /\ statusSlots'[k] = {} /\ disposedSlots'[k] = {}]_vars

\* C13: the first register(k) leaves k's entry with an empty collection and a channel
\* that is open on k, and with the status and disposal handlers connected.
C13_RegisterOpensChannel ==
  [][(last'.op = "register" /\ bindingsMap[last'.kernel] = NoTracker) =>
       LET k == last'.kernel
           t == bindingsMap'[k]
       IN /\ t # NoTracker
          /\ trackers'[t].bindings = <<>>
          /\ t \in statusSlots'[k] /\ t \in disposedSlots'[k]
          /\ trackers'[t].comm # NoComm
          /\ comms'[trackers'[t].comm].kernel = k
          /\ comms'[trackers'[t].comm].opened
          /\ ~comms'[trackers'[t].comm].isDisposed]_vars

\* C14: updateCellDisplay leaves the cell with at most one of the binding classes;
\* when the cell's assigned name is the name of the binding at index i of the
\* collection, the class is entry i mod 10 of CELL_CLASSES, so the bindings at
\* indices i and i + 10, whose names differ, get the same class; when the cell has no
\* assignment or its name is not in the collection, it has none of the classes.
C14_DisplayVariant ==
  [][last'.op = "updateCellDisplay" =>
       LET list == display.list
           name == last'.text
           variants == display'.classes \cap CellClassSet
       IN /\ display'.meta = name /\ display'.list = list
          /\ Cardinality(variants) <= 1
          /\ \A i \in 0..(Len(list) - 1) :
               /\ list[i + 1].name = name => variants = {CELL_CLASSES[(i % 10) + 1]}
               /\ i + 10 < Len(list) =>
                    /\ list[i + 1].name # list[i + 11].name
                    /\ WidgetClasses({}, list, list[i + 1].name)
                         = WidgetClasses({}, list, list[i + 11].name)
          /\ name \notin NamesOf(list) => variants = {}]_vars

\* C14 witness: a cell assigned the binding at index 10 was rendered and shows the
\* class of index 0, which belongs to a binding of another name
C14_Witness ==
  /\ last.op = "updateCellDisplay"
  /\ Len(display.list) > 10
  /\ display.list[11].name = display.meta
  /\ display.classes = {"jp-Cell", CELL_CLASSES[1]}
  /\ display.list[1].name # display.meta

\* C14 second witness case: a cell whose assigned name is not in the collection lost
\* the class it showed
C14_WitnessDangling ==
  /\ last.op = "updateCellDisplay"
  /\ display.meta = "gone"
  /\ display.list # <<>>
  /\ display.classes = {"jp-Cell"}

\* C15: while the adapter is not disposed, a change of a cell's binding-name key runs
\* every callback registered for that cell, each once and in registration order; a
\* write that changes nothing, a change of another key, or any operation that is not
\* a metadata write runs none; callbacks registered for another cell never run.
C15_CallbacksPerChange ==
  [][~adapterDisposed =>
       IF /\ last'.op \in {"setBindingName", "removeBinding", "otherWrite"}
          /\ last'.key = BINDING_NAME_METADATA_KEY
          /\ metadata'[last'.model][last'.key] # metadata[last'.model][last'.key]
       THEN last'.fired = handlerMap[last'.model]
       ELSE last'.fired = <<>>]_vars

\* C15 witness: a change of the binding-name key ran two callbacks registered for the
\* same cell while a third, registered for the other cell, did not run
C15_Witness ==
  /\ last.op = "setBindingName"
  /\ Len(last.fired) = 2
  /\ \E c \in CellModels \ {last.model} : handlerMap[c] # <<>>

\* C15 second witness case: another key of a cell with a registered callback changed
C15_WitnessOtherKey ==
  /\ last.op = "otherWrite"
  /\ last.text # NoName
  /\ handlerMap[last.model] # <<>>
  /\ ~adapterDisposed

\* C16: dispose() leaves no registered closure connected to any cell's metadata, and
\* once the adapter is disposed no operation runs a callback.
C16_DisposeDisconnectsAll ==
  [][/\ last'.op = "adapterDispose" =>
          \A c \in CellModels : metaSlots'[c] \cap Registered = {}
     /\ adapterDisposed => last'.fired = <<>>]_vars

\* C16 witness: after a dispose with two callbacks registered for one cell and one
\* for the other, the binding-name key of a cell changed
C16_Witness ==
  /\ adapterDisposed
  /\ last.op \in {"setBindingName", "removeBinding"}
  /\ Len(handlerMap[last.model]) = 2
  /\ \E c \in CellModels \ {last.model} : handlerMap[c] # <<>>

\* C17: setBindingName(cell, name) leaves the cell's binding-name key at name and
\* removeBinding(cell) leaves it absent; neither changes another key of that cell or
\* any key of another cell.
C17_OnlyOwnKey ==
  [][last'.op \in {"setBindingName", "removeBinding"} =>
       /\ metadata'[last'.model][BINDING_NAME_METADATA_KEY] = last'.text
       /\ last'.op = "removeBinding" => last'.text = NoName
       /\ \A c \in CellModels, k \in MetadataKeys :
            (c # last'.model \/ k # BINDING_NAME_METADATA_KEY)
              => metadata'[c][k] = metadata[c][k]]_vars

\* C17 witness: the binding name of a cell was set after another producer had written
\* another key of the same cell, which still has that value
C17_Witness ==
  /\ last.op = "setBindingName"
  /\ \E k \in OtherKeys : metadata[last.model][k] # NoName
  /\ metadata[last.model][BINDING_NAME_METADATA_KEY] = last.text

\* C17 second witness case: the binding name was removed from a cell with another key
C17_WitnessRemove ==
  /\ last.op = "removeBinding"
  /\ \E k \in OtherKeys : metadata[last.model][k] # NoName
  /\ \E c \in CellModels \ {last.model} : metadata[c][BINDING_NAME_METADATA_KEY] # NoName

\* C18: for a kernel connection on which createComm fails, register and every status
\* change raise no error; a status change leaves the kernel's entry, its collection
\* and every comm as they were; while the kernel is registered its collection is empty
\* and holds no channel, and getBindings returns it.
C18_FailedOpenAbsorbed ==
  [][/\ (last'.kernel \in NoCommKernels /\ last'.op \in {"register", "statusChanged"})
          => ~last'.threw
     /\ (last'.kernel \in NoCommKernels /\ last'.op = "statusChanged")
          => UNCHANGED <<bindingsMap, trackers, comms>>
     /\ (/\ last'.kernel \in NoCommKernels /\ last'.op = "getBindings"
         /\ bindingsMap[last'.kernel] # NoTracker)
          => /\ last'.res = bindingsMap[last'.kernel]
             /\ ~trackers[last'.res].isDisposed
     /\ \A k \in NoCommKernels :
          bindingsMap'[k] # NoTracker
            => /\ trackers'[bindingsMap'[k]].bindings = <<>>
               /\ trackers'[bindingsMap'[k]].comm = NoComm]_vars

\* C19: a handled binding_update or binding_remove without binding payload, or
\* binding_list_reply without bindings list, raises no error and leaves the
\* collection as it was.
C19_MalformedIgnored ==
  [][(last'.op = "onCommMsg" /\ last'.res # NoTracker /\ last'.data.malformed) =>
       /\ ~last'.threw
       /\ trackers'[last'.res].bindings = trackers[last'.res].bindings]_vars

\* C20: a handled message whose event is none of the three known kinds - another
\* event, no event field, or no data - changes no collection and nothing else, emits
\* no change notification and raises no error.
C20_UnknownIgnored ==
  [][(/\ last'.op = "onCommMsg" /\ last'.res # NoTracker
      /\ last'.data.event \notin KnownEvents) =>
       /\ UNCHANGED <<registryVars, notebookVars>>
       /\ last'.emitted = 0
       /\ ~last'.threw]_vars

\* C20 witness: a message of an unknown event was handled for a collection that holds
\* a binding
C20_Witness ==
  /\ last.op = "onCommMsg" /\ last.res # NoTracker
  /\ last.data = OtherData
  /\ trackers[last.res].bindings # <<>>

\* C20 second witness case: a message without event field
C20_WitnessNoEvent ==
  /\ last.op = "onCommMsg" /\ last.res # NoTracker
  /\ last.data = EmptyData
  /\ trackers[last.res].bindings # <<>>

\* C20 third witness case: a message without data
C20_WitnessNoData ==
  /\ last.op = "onCommMsg" /\ last.res # NoTracker
  /\ last.data = NoData
  /\ trackers[last.res].bindings # <<>>

\* C21: the controller is subscribed to at most one collection, which is the one the
\* registry holds for the notebook's current kernel, and to none when the current
\* kernel is null; a kernel-change event to a kernel leaves that kernel registered
\* and the controller subscribed to its collection alone, whatever it was subscribed
\* to before.
C21_SingleSubscription ==
  [][/\ Cardinality(listSlots') <= 1
     /\ \A t \in listSlots' :
          /\ sessionKernel'[ControllerNotebook] # NoKernel
          /\ t = bindingsMap'[sessionKernel'[ControllerNotebook]]
     /\ (last'.op = "kernelChanged" /\ last'.kernel # NoKernel)
          => /\ bindingsMap'[last'.kernel] # NoTracker
             /\ listSlots' = {bindingsMap'[last'.kernel]}]_vars

\* C21 witness: the kernel changed from one registered kernel to another; the
\* controller is subscribed to the second kernel's collection and the first kernel's
\* collection, still held by the registry, has lost the subscription
C21_Witness ==
  /\ last.op = "kernelChanged" /\ last.kernel # NoKernel
  /\ listSlots = {bindingsMap[last.kernel]}
  /\ \E k \in Kernels \ {last.kernel} :
       /\ bindingsMap[k] # NoTracker
       /\ ~trackers[bindingsMap[k]].isDisposed
       /\ trackers[bindingsMap[k]].bindings # <<>>

\* C21 second witness case: the kernel became null after a kernel was current
C21_WitnessNull ==
  /\ last.op = "kernelChanged" /\ last.kernel = NoKernel
  /\ listSlots = {}
  /\ \E k \in Kernels : bindingsMap[k] # NoTracker

\* the display rule: a cell whose assigned name is the name of a binding of the list
\* shows the variant of that binding's index and its mimeType ('shell' when it has
\* none); any other cell shows the 'no binding' variant
ShownPerRule(cell, list) ==
  LET hits == {j \in 1..Len(list) : list[j].name = cell.meta}
  IN IF hits = {} THEN NoBindingDisplay(cell)
     ELSE LET j == CHOOSE h \in hits : \A g \in hits : h <= g
          IN /\ cell.cls = (j - 1) % NumCellClasses
             /\ cell.mimeType = IF list[j].mimeType # "" THEN list[j].mimeType ELSE "shell"

\* C22: when an inbound event has changed the collection the controller is subscribed
\* to, every code cell keeps its assignment and is displayed by the display rule for
\* that assignment and the collection's new contents; every other cell is as it was.
C22_AllCodeCellsRerendered ==
  [][(/\ last'.op = "onCommMsg" /\ last'.res # NoTracker
      /\ last'.res \in listSlots /\ last'.emitted > 0) =>
       /\ Len(cells') = Len(cells)
       /\ \A i \in 1..Len(cells) :
            IF cells[i].type = "code"
            THEN /\ cells'[i].meta = cells[i].meta
                 /\ ShownPerRule(cells'[i], trackers'[last'.res].bindings)
            ELSE cells'[i] = cells[i]]_vars

\* C22 witness: an update added the binding two code cells name; both were inserted
\* with that assignment and show its variant now
C22_Witness ==
  /\ Handled(last, "binding_update") /\ last.res \in listSlots
  /\ Len(cells) = 2
  /\ \A i \in 1..2 :
       /\ cells[i].type = "code"
       /\ cells[i].meta = last.data.binding.name
       /\ cells[i].cls = 0

\* C22 second witness case: a non-code cell that names the binding of the update kept
\* the display it was inserted with, next to a code cell that was re-rendered
C22_WitnessNonCode ==
  /\ Handled(last, "binding_update") /\ last.res \in listSlots
  /\ Len(cells) = 2
  /\ cells[1].type = "markdown" /\ cells[1].meta = last.data.binding.name
  /\ cells[1].mimeType = "default"
  /\ cells[2].type = "code" /\ cells[2].mimeType = "shell"

\* C23: the panel's _onKernelChanged is connected to the kernel-change signal of the
\* focused notebook and of no other; the panel's list component is connected to the
\* change signal of the collection the registry holds for the focused notebook's
\* kernel when that kernel is a 'hydra' kernel, and to no other collection.
C23_PanelSubscriptions ==
  LET kernel == IF panelNotebook = NoNotebook THEN NoKernel
                ELSE sessionKernel[panelNotebook]
  IN /\ panelKernelSlots = (IF panelNotebook = NoNotebook THEN {} ELSE {panelNotebook})
     /\ Cardinality(panelListSlots) <= 1
     /\ panelListSlots = (IF ShowsBindings(kernel) THEN {bindingsMap[kernel]} ELSE {})
     /\ NoTracker \notin panelListSlots

\* the registry entry holds a comm opened by the status handler on the connection's
\* last transition to 'connected', and the connection is up
Linked ==
  /\ bindingsMap[SyncKernel] # NoTracker
  /\ Connected
  /\ trackers[bindingsMap[SyncKernel]].comm # NoComm

\* the collection holds the bindings of the kernel side, each once, with its attributes
Synced ==
  /\ bindingsMap[SyncKernel] # NoTracker
  /\ LET list == trackers[bindingsMap[SyncKernel]].bindings
     IN Len(list) = Len(remote) /\ Range(list) = Range(remote)

\* C24: once the kernel side has stopped changing its bindings, with the connection
\* up since a transition to 'connected' of the registered kernel, in-order delivery
\* and answered requests lead to a state from which the collection always holds
\* exactly the bindings of the kernel side with their latest attributes.
C24_EventuallyConsistent == [](settled /\ Linked => <>[]Synced)

\* C24 witness: after a reconnection the collection holds the kernel side's binding
\* with attributes, nothing is in flight and the kernel side has stopped changing
C24_Witness ==
  /\ settled /\ Linked /\ Synced
  /\ trackers[bindingsMap[SyncKernel]].comm = 2
  /\ wire = <<>> /\ requests = <<>>
  /\ \E i \in 1..Len(remote) : remote[i].mimeType # ""

\* C24 second witness case: the kernel side stopped changing while the collection
\* differed from it and the answer to the request was still to come
C24_WitnessBehind ==
  /\ settled /\ Linked /\ ~Synced
  /\ requests # <<>>
  /\ trackers[bindingsMap[SyncKernel]].bindings # <<>>

\* the comms created by the registry on a kernel that are open: opened, and neither
\* closed nor disposed since
OpenComms(kernel) ==
  {c \in 1..Len(comms) : comms[c].kernel = kernel /\ comms[c].opened /\ ~comms[c].isDisposed}

\* C25: on every kernel connection at most one comm created by the registry is open.
C25_OneOpenChannel == \A k \in AllKernels : Cardinality(OpenComms(k)) <= 1

\* C26: a status change to 'connected' of a kernel that has no registry entry - never
\* registered, or unregistered by a client or by the disposal handler and not
\* registered since - creates no comm and sends no binding_list_request.
C26_NoResyncAfterUnregister ==
  [][(/\ last'.op = "statusChanged" /\ last'.text = "connected"
      /\ bindingsMap[last'.kernel] = NoTracker) =>
       /\ Len(comms') = Len(comms)
       /\ \A c \in 1..Len(comms) : comms'[c].requests = comms[c].requests]_vars

\* C27: when an add event for a code cell is handled while the controller holds a live
\* collection, the inserted cell ends displayed by the display rule for its assignment
\* - seeded, brought along, or none - and that collection.
C27_NewCellRendered ==
  [][(last'.op = "cellAdd" /\ last'.cell.type = "code" /\ ctlBindings # NoTracker) =>
       ShownPerRule(cells'[last'.arg + 1], trackers[ctlBindings].bindings)]_vars

\* C28: while the controller holds no collection - before the first kernel-change
\* event or after the kernel became null - a change of a code cell's assignment, by
\* the toolbar or by seeding, raises no error and leaves that cell displayed with the
\* 'no binding' variant.
C28_NoCollectionNoBinding ==
  [][ctlBindings = NoTracker =>
       /\ (/\ last'.op \in {"updateCellBinding", "removeCellBinding"}
           /\ cells[last'.arg + 1].type = "code"
           /\ cells'[last'.arg + 1].meta # cells[last'.arg + 1].meta)
            => ~last'.threw /\ NoBindingDisplay(cells'[last'.arg + 1])
       /\ (/\ last'.op = "cellAdd" /\ last'.cell.type = "code"
           /\ cells'[last'.arg + 1].meta # last'.cell.meta)
            => ~last'.threw /\ NoBindingDisplay(cells'[last'.arg + 1])]_vars

\* C29: when a kernel-change event of the controller's notebook has been handled and
\* the controller holds another collection than before, or none, every code cell is
\* displayed by the display rule for the collection held now (no binding at all when
\* the kernel is null) and the toolbar lists exactly the bindings of that collection.
C29_KernelChangeReflected ==
  [][(/\ last'.op = "kernelChanged" /\ last'.text = ControllerNotebook
      /\ ctlBindings' # ctlBindings) =>
       LET list == IF ctlBindings' = NoTracker THEN <<>>
                   ELSE trackers'[ctlBindings'].bindings
       IN /\ switcherList' = list
          /\ \A i \in 1..Len(cells') :
               cells'[i].type = "code" => ShownPerRule(cells'[i], list)]_vars

\* the comms the registry's entries hold
HeldComms ==
  {trackers[bindingsMap[k]].comm : k \in {j \in AllKernels : bindingsMap[j] # NoTracker}}
    \ {NoComm}

\* C30: a message handed to _onCommMsg whose comm id is absent, or is not the id of
\* the comm some registry entry holds at that moment - the comm of no entry, or a comm
\* an entry held before a reconnect replaced it - leaves every collection as it was.
C30_StaleMessageIgnored ==
  [][(last'.op = "onCommMsg" /\ last'.arg \notin HeldComms) =>
       \A t \in 1..Len(trackers) : trackers'[t].bindings = trackers[t].bindings]_vars

\* C30 witness: a binding_update naming a binding the collection does not hold arrived
\* on the comm a reconnect had replaced, after the list reply on the new comm had
\* filled the collection
C30_Witness ==
  /\ last.op = "onCommMsg" /\ last.arg # 0 /\ last.res = NoTracker
  /\ last.data.event = "binding_update" /\ last.data.binding # NoBinding
  /\ comms[last.arg].isDisposed /\ ~comms[last.arg].closed
  /\ LET tracker == bindingsMap[comms[last.arg].kernel]
     IN /\ tracker # NoTracker
        /\ trackers[tracker].comm \notin {NoComm, last.arg}
        /\ ~comms[trackers[tracker].comm].isDisposed
        /\ trackers[tracker].bindings # <<>>
        /\ FindIndex(trackers[tracker].bindings, last.data.binding.name) = -1

\* C30 second witness case: a list reply without comm id arrived while an entry held
\* an open comm and a collection with bindings
C30_WitnessNoId ==
  /\ last.op = "onCommMsg" /\ last.arg = 0 /\ last.res = NoTracker
  /\ last.data.event = "binding_list_reply"
  /\ \E c \in HeldComms : ~comms[c].isDisposed
                          /\ trackers[bindingsMap[comms[c].kernel]].bindings # <<>>

\* C31: when a well-formed binding_list_reply is handled on the comm of a collection
\* that has a subscriber, the contents the subscriber finds at each notification are
\* the contents before the reply or the reply's list.
C31_ReplyAtomic ==
  [][(/\ last'.op = "onCommMsg" /\ last'.res # NoTracker
      /\ last'.res \in listSlots \cup panelListSlots
      /\ last'.data.event = "binding_list_reply" /\ ~last'.data.malformed) =>
       LET before == trackers[last'.res].bindings
           seen == Emissions(before, last'.data)
       IN \A i \in 1..Len(seen) : seen[i] \in {before, last'.data.bindings}]_vars

\* the contents of the collection the registry holds for a kernel
CollectionOf(kernel) == trackers[bindingsMap[kernel]].bindings

\* C32: the contents of the collection of a registered kernel change only in a step
\* that handles a binding_list_reply, binding_update or binding_remove arriving on
\* the comm that kernel's entry holds, or in a step that unregisters the kernel;
\* register, status changes with their binding_list_request, kernel changes of the
\* notebook, cell insertions and the toolbar's actions leave them as they are.
C32_OnlyProtocolEventsChange ==
  [][\A k \in AllKernels :
       (/\ bindingsMap[k] # NoTracker /\ bindingsMap'[k] # NoTracker
        /\ trackers'[bindingsMap'[k]].bindings # CollectionOf(k)) =>
         \/ /\ last'.op = "onCommMsg"
            /\ last'.res = bindingsMap[k]
            /\ last'.arg = trackers[bindingsMap[k]].comm
            /\ last'.data.event \in {"binding_list_reply", "binding_update", "binding_remove"}
         \/ last'.op \in {"unregister", "kernelDisposed"} /\ last'.kernel = k]_vars

\* C32 witness: a kernel-change event registered again the kernel whose collection
\* holds bindings
C32_Witness ==
  /\ last.op = "kernelChanged" /\ last.kernel # NoKernel
  /\ last.res = ctlBindings /\ ctlBindings # NoTracker
  /\ trackers[ctlBindings].bindings # <<>>

\* C32 second witness case: the toolbar assigned a code cell while the collection
\* held bindings
C32_WitnessAssignment ==
  /\ last.op = "updateCellBinding"
  /\ ctlBindings # NoTracker /\ trackers[ctlBindings].bindings # <<>>
  /\ cells[last.arg + 1].type = "code" /\ cells[last.arg + 1].meta = last.text

\* C32 third witness case, of the registry under Spec: a reconnect opened a new comm
\* and sent the list request while the collection held bindings
C32_WitnessReconnect ==
  /\ last.op = "statusChanged" /\ last.text = "connected"
  /\ last.res # NoTracker /\ trackers[last.res].bindings # <<>>
  /\ trackers[last.res].comm # NoComm /\ comms[trackers[last.res].comm].requests = 1

\* C33: a message handed to _onCommMsg leaves the registry's entries and every comm as
\* they were, and leaves the tracker of every kernel whose entry does not hold the
\* message's comm - collection contents and comm - as it was.
C33_OtherKernelsUntouched ==
  [][last'.op = "onCommMsg" =>
       /\ bindingsMap' = bindingsMap
       /\ comms' = comms
       /\ \A k \in AllKernels :
            (bindingsMap[k] # NoTracker /\ trackers[bindingsMap[k]].comm # last'.arg) =>
              trackers'[bindingsMap[k]] = trackers[bindingsMap[k]]]_vars

\* C33 witness: an event on the comm of one kernel changed that kernel's collection
\* while another kernel was registered with an open comm and a collection of other
\* contents
C33_Witness ==
  /\ last.op = "onCommMsg" /\ last.res # NoTracker /\ last.emitted > 0
  /\ \E a, b \in AllKernels :
       /\ a # b
       /\ bindingsMap[a] = last.res /\ trackers[last.res].comm = last.arg
       /\ bindingsMap[b] # NoTracker
       /\ trackers[bindingsMap[b]].comm \notin {NoComm, last.arg}
       /\ ~comms[trackers[bindingsMap[b]].comm].isDisposed
       /\ trackers[bindingsMap[b]].bindings # <<>>
       /\ trackers[bindingsMap[b]].bindings # trackers[last.res].bindings

\* what the widget shows once updateCellDisplay has run for the assignment `name`:
\* its binding classes and the editor's mimeType
Shown(widget, name) ==
  <<WidgetClasses(widget.classes, widget.list, name) \cap CellClassSet,
    UpdateCellDisplay([widget EXCEPT !.meta = name], widget.list).mimeType>>

\* C34: when updateCellDisplay has rendered a cell whose assigned name is not in the
\* collection, what the cell shows differs from what it would show with no assignment
\* and from what it would show assigned to any binding of the collection.
C34_DanglingDistinct ==
  [][(/\ last'.op = "updateCellDisplay"
      /\ last'.text # NoName /\ last'.text \notin NamesOf(display.list)) =>
       LET shown == <<display'.classes \cap CellClassSet, display'.mimeType>>
       IN /\ shown # Shown(display, NoName)
          /\ \A n \in NamesOf(display.list) : shown # Shown(display, n)]_vars

\* C35: the toolbar's set action leaves the active cell assigned the chosen name, its
\* clear action leaves the active cell without assignment, both leave every other
\* cell as it was, and with no model or no active cell both leave every cell as it was.
C35_ToolbarActions ==
  [][last'.op \in {"updateCellBinding", "removeCellBinding"} =>
       IF last'.arg = NoActiveCell THEN cells' = cells
       ELSE /\ Len(cells') = Len(cells)
            /\ cells'[last'.arg + 1].meta =
                 IF last'.op = "updateCellBinding" THEN last'.text ELSE NoName
            /\ \A i \in 1..Len(cells) : i # last'.arg + 1 => cells'[i] = cells[i]]_vars

\* C35 witness: the set action gave the active cell, the first of two, another name
\* than the one the other cell keeps
C35_Witness ==
  /\ last.op = "updateCellBinding" /\ last.arg = 0
  /\ Len(cells) = 2
  /\ cells[1].meta = last.text
  /\ cells[2].meta \notin {NoName, last.text}

\* C35 second witness case: the clear action ran on the second of two assigned cells
C35_WitnessClear ==
  /\ last.op = "removeCellBinding" /\ last.arg = 1
  /\ Len(cells) = 2
  /\ cells[1].meta # NoName /\ cells[2].meta = NoName

\* C35 third witness case: an action ran with no active cell over assigned cells
C35_WitnessNoActiveCell ==
  /\ last.op \in {"updateCellBinding", "removeCellBinding"} /\ last.arg = NoActiveCell
  /\ \E i \in 1..Len(cells) : cells[i].meta # NoName

\* C36: every code cell of the notebook has a binding-name listener of the controller.
C36_EveryCodeCellListens ==
  \A i \in 1..Len(cells) : cells[i].type = "code" => cells[i].listeners > 0

\* C37: when a focus change to no notebook has been handled, no error was raised, the
\* panel's _onKernelChanged is connected to no notebook's kernel-change signal, and
\* the panel shows its placeholder, its list component connected to no collection.
C37_FocusLostHandled ==
  [][(last'.op = "currentChanged" /\ last'.text = NoNotebook) =>
       /\ ~last'.threw
       /\ panelKernelSlots' = {}
       /\ panelContent' = NoTracker
       /\ panelListSlots' = {}]_vars

\* C38: in every step in which the panel's refresh() ran - a focus change to a
\* notebook, or a kernel change of the notebook whose signal the panel is connected
\* to - the kernel of the focused notebook, when it is a 'hydra' kernel, has a registry
\* entry, and the focus change raised no error.
C38_LookupNeverFails ==
  [][(\/ last'.op = "currentChanged" /\ last'.text # NoNotebook
      \/ last'.op = "kernelChanged" /\ last'.text \in panelKernelSlots) =>
       /\ ~last'.threw
       /\ panelNotebook' # NoNotebook =>
            LET kernel == sessionKernel'[panelNotebook']
            IN ShowsBindings(kernel) => bindingsMap'[kernel] # NoTracker]_vars

\* the assignment and display of a cell
MetaAndDisplay(cell) == <<cell.meta, cell.cls, cell.mimeType>>

\* C39: once createNew's disposable has been disposed, an add event leaves the
\* inserted cell with the assignment it came with and every cell that was there as it
\* was; a toolbar action changes the active cell's assignment and no cell's display;
\* kernel-change events, inbound binding events and every other step leave the
\* assignment and display of every cell as they were.
C39_NothingAfterDispose ==
  [][ctlDisposed =>
       CASE last'.op = "cellAdd" ->
              /\ Len(cells') = Len(cells) + 1
              /\ cells'[last'.arg + 1].meta = last'.cell.meta
              /\ cells'[last'.arg + 1].listeners = 0
              /\ \A i \in 1..Len(cells) :
                   cells'[IF i <= last'.arg THEN i ELSE i + 1] = cells[i]
         [] last'.op \in {"updateCellBinding", "removeCellBinding"} ->
              /\ Len(cells') = Len(cells)
              /\ \A i \in 1..Len(cells) :
                   /\ cells'[i].cls = cells[i].cls
                   /\ cells'[i].mimeType = cells[i].mimeType
                   /\ i # last'.arg + 1 => cells'[i].meta = cells[i].meta
         [] OTHER ->
              /\ Len(cells') = Len(cells)
              /\ \A i \in 1..Len(cells) :
                   MetaAndDisplay(cells'[i]) = MetaAndDisplay(cells[i])]_vars

\* C39 witness: after the disposal an empty code cell without assignment was inserted
\* behind an assigned cell and was not seeded
C39_Witness ==
  /\ ctlDisposed
  /\ last.op = "cellAdd" /\ last.arg > 0 /\ last.text = ""
  /\ last.cell.type = "code" /\ last.cell.meta = NoName
  /\ cells[last.arg].meta # NoName
  /\ cells[last.arg + 1].meta = NoName

\* C39 second witness case: after the disposal the collection the controller was
\* subscribed to received the binding a code cell is assigned to, and the cell still
\* shows no binding
C39_WitnessCollectionChange ==
  /\ ctlDisposed
  /\ last.op = "onCommMsg" /\ last.res # NoTracker /\ last.res = ctlBindings
  /\ last.data.event = "binding_update"
  /\ \E i \in 1..Len(cells) :
       /\ cells[i].type = "code" /\ cells[i].meta = last.data.binding.name
       /\ cells[i].cls = -1

\* C39 third witness case: after the disposal the toolbar assigned a code cell, which
\* had a listener before, a binding of the collection, and the cell's display stayed
C39_WitnessNameChange ==
  /\ ctlDisposed
  /\ last.op = "updateCellBinding" /\ last.arg # NoActiveCell
  /\ cells[last.arg + 1].type = "code" /\ cells[last.arg + 1].meta = last.text
  /\ ctlBindings # NoTracker
  /\ FindIndex(trackers[ctlBindings].bindings, last.text) > -1
  /\ cells[last.arg + 1].cls = -1

\* C39 fourth witness case: after the disposal a kernel-change event arrived and the
\* controller registered nothing
C39_WitnessKernelChange ==
  /\ ctlDisposed
  /\ last.op = "kernelChanged" /\ last.kernel # NoKernel
  /\ bindingsMap[last.kernel] = NoTracker

====
